---- MODULE Spec2Model ----
(***************************************************************************)
(* A model of triones.py: the TrionesController session (connect,          *)
(* disconnect, _ensure_connected, _write_command with its reconnect-and-   *)
(* resend, _get_status_response), the command frames of the semantic       *)
(* operations and the status decoder.  Every await of a BleakClient call   *)
(* is one step whose outcome (return or raise) the transport chooses.      *)
(***************************************************************************)
EXTENDS Integers, Sequences, FiniteSets, TLC

(* ------------------------------ bounds -------------------------------- *)

\* BleakClient objects the controller may create in one behaviour.
MaxClients == 3

\* Notifications delivered to one status request's handler.
MaxNotifs == 2

\* Devices one BleakScanner.discover() returns.
MaxDevices == 3

(* ------------------------- protocol constants ------------------------- *)

HEADER_MAGIC == 102
FOOTER_MAGIC == 153
POWER_ON == 35
POWER_OFF == 36

WRITE_CHARACTERISTIC == "ffd9"
NOTIFY_CHARACTERISTIC_1 == "ffda"
NOTIFY_CHARACTERISTIC_2 == "ffd4"

\* self._client is None
None == 0

\* response_data = None (no byte string holds -1)
NoneBytes == <<-1>>

(* --------------------------- command frames --------------------------- *)

\* Mutation of PowerFrame: the state byte last.
PowerFrame_state_last(state) == <<204, 51, state>>

PowerFrame(state) == <<204, state, 51>>

RgbFrame(red, green, blue) == <<86, red, green, blue, 0, 240, 170>>

\* Mutation of WhiteFrame: the RGB frame's 0xF0 in place of 0x0F.
WhiteFrame_rgb_marker(intensity) == <<86, 0, 0, 0, intensity, 240, 170>>

WhiteFrame(intensity) == <<86, 0, 0, 0, intensity, 15, 170>>

OffFrame == <<86, 0, 0, 0, 0, 240, 170>>

ModeFrame(mode, speed) == <<187, mode, speed, 68>>

StatusRequestFrame == <<239, 1, 119>>

(* ------------------------------- state -------------------------------- *)

VARIABLES
    platformWindows,  \* platform.system() == "Windows"
    auto_connect,     \* self.auto_connect
    connected,        \* self._connected
    client,           \* self._client: None or the id of a BleakClient
    nclients,         \* BleakClient objects created so far
    pc,               \* where the running coroutine is suspended
    stack,            \* the return places of the calls in progress
    ret,              \* the value the last returned coroutine gave
    op,               \* the public operation in progress
    args,             \* its arguments
    pre,              \* the session as the operation found it
    cmd,              \* _write_command's command
    wc_start,         \* the length of log when _write_command was called
    wc_pre,           \* is_connected when _write_command was called
    success,          \* set_rgbw's success
    response_data,    \* _get_status_response's response_data
    received,         \* the notifications its handler was called with
    active_notify,    \* <<client, characteristic>> with the handler started
    log,              \* the transport calls of the operation, in order
    result,           \* what the operation returned or raised
    status,           \* the TrionesStatus returned when result = "Status"
    prev,             \* the client the operation before this one wrote its
                      \* status request on and got no answer, else None
    device,           \* the light at the other end, where one is modelled
    peer,             \* a second controller, where one is modelled: its
                      \* fields and the state of its running operation;
                      \* or a second coroutine on this controller
    awaiting          \* where coroutines overlap on one controller: the
                      \* client whose call the running coroutine awaits

vars == <<platformWindows, auto_connect, connected, client, nclients, pc,
          stack, ret, op, args, pre, cmd, wc_start, wc_pre, success,
          response_data, received, active_notify, log, result, status,
          prev, device, peer, awaiting>>

env == <<platformWindows, auto_connect, device, prev, peer, awaiting>>
session == <<connected, client, nclients>>
frame == <<op, args, pre, result, status>>
wlocals == <<cmd, wc_start, wc_pre>>
rgbwlocals == <<success>>
slocals == <<response_data, received>>

is_connected == connected /\ client # None

\* No light is modelled: the transport's answers are arbitrary.
NoDevice == [on |-> FALSE, rgb |-> <<>>]

NoStatus == [is_on |-> FALSE, mode |-> 0, speed |-> 0, red |-> 0, green |-> 0,
             blue |-> 0, white |-> 0, raw_response |-> <<>>]

\* There is one controller only.
NoPeer == [pc |-> "absent"]

\* A transport call among these raised.
Failed(events) == \E i \in 1..Len(events) : events[i].res # "ok"

\* One call of the transport: ev on BleakClient cl, which returned
\* (res = "ok") or raised ("not_connected": an error whose message holds
\* "not connected"; "error": any other exception).
Ev(ev, cl, res, data) == [ev |-> ev, cl |-> cl, res |-> res, data |-> data]

Outcomes == {"ok", "error"}
WriteOutcomes == {"ok", "not_connected", "error"}

(* --------------------------- control flow ----------------------------- *)

Goto(label) == pc' = label /\ UNCHANGED <<stack, ret>>

Call(target, back) ==
    /\ pc' = target
    /\ stack' = <<back>> \o stack
    /\ UNCHANGED ret

Return(value) ==
    /\ pc' = Head(stack)
    /\ stack' = Tail(stack)
    /\ ret' = value

\* A BleakClient.disconnect() that returned ends that client's notifications.
Closed(cl, res) ==
    IF res = "ok" THEN {s \in active_notify : s[1] # cl} ELSE active_notify

Init ==
    /\ platformWindows \in BOOLEAN
    /\ auto_connect \in BOOLEAN
    /\ connected = FALSE
    /\ client = None
    /\ nclients = 0
    /\ pc = "idle"
    /\ stack = <<>>
    /\ ret = "None"
    /\ op = "none"
    /\ args = <<>>
    /\ pre = [connected |-> FALSE, client |-> None, nclients |-> 0]
    /\ cmd = <<>>
    /\ wc_start = 0
    /\ wc_pre = FALSE
    /\ success = TRUE
    /\ response_data = NoneBytes
    /\ received = <<>>
    /\ active_notify = {}
    /\ log = <<>>
    /\ result = "pending"
    /\ status = NoStatus
    /\ prev = None
    /\ device = NoDevice
    /\ peer = NoPeer
    /\ awaiting = None

(* ------------------------------ connect ------------------------------- *)

\* Mutation of connect_begin: is_connected is not looked at.
connect_begin_always_opens ==
    /\ pc = "connect"
    /\ client' = nclients + 1
    /\ nclients' = nclients + 1
    /\ Goto("connect_open")
    /\ UNCHANGED <<env, connected, frame, wlocals, rgbwlocals, slocals,
                   active_notify, log>>

\* connect(), lines 130-134: return True when connected, else a new client.
connect_begin ==
    /\ pc = "connect"
    /\ IF is_connected
       THEN /\ Return("True")
            /\ UNCHANGED <<client, nclients>>
       ELSE /\ client' = nclients + 1
            /\ nclients' = nclients + 1
            /\ Goto("connect_open")
    /\ UNCHANGED <<env, connected, frame, wlocals, rgbwlocals, slocals,
                   active_notify, log>>

\* await self._client.connect(), and what follows it in the try or the
\* except block up to the next await.
connect_open ==
    /\ pc = "connect_open"
    /\ \E res \in Outcomes :
        /\ log' = Append(log, Ev("open", client, res, <<>>))
        /\ IF res = "ok"
           THEN /\ connected' = TRUE
                /\ Return("True")
           ELSE /\ connected' = FALSE
                /\ Goto("connect_cleanup")
    /\ UNCHANGED <<env, client, nclients, frame, wlocals, rgbwlocals, slocals,
                   active_notify>>

\* Mutation of connect_cleanup: the client is not dropped after the failed
\* open (self._client = None left out).
connect_cleanup_keeps_client ==
    /\ pc = "connect_cleanup"
    /\ \E res \in Outcomes :
        /\ log' = Append(log, Ev("close", client, res, <<>>))
        /\ active_notify' = Closed(client, res)
    /\ Return("False")
    /\ UNCHANGED <<env, session, frame, wlocals, rgbwlocals, slocals>>

\* except branch: await self._client.disconnect() (errors swallowed),
\* self._client = None, return False.
connect_cleanup ==
    /\ pc = "connect_cleanup"
    /\ \E res \in Outcomes :
        /\ log' = Append(log, Ev("close", client, res, <<>>))
        /\ active_notify' = Closed(client, res)
    /\ client' = None
    /\ Return("False")
    /\ UNCHANGED <<env, connected, nclients, frame, wlocals, rgbwlocals,
                   slocals>>

(* -------------------------- _force_reconnect -------------------------- *)

force_reconnect_begin ==
    /\ pc = "force_reconnect"
    /\ connected' = FALSE
    /\ IF client # None THEN Goto("force_reconnect_close") ELSE Return("None")
    /\ UNCHANGED <<env, client, nclients, frame, wlocals, rgbwlocals, slocals,
                   active_notify, log>>

\* Mutation of force_reconnect_close: the client is not dropped
\* (self._client = None left out).
force_reconnect_close_keeps_client ==
    /\ pc = "force_reconnect_close"
    /\ \E res \in Outcomes :
        /\ log' = Append(log, Ev("close", client, res, <<>>))
        /\ active_notify' = Closed(client, res)
    /\ Return("None")
    /\ UNCHANGED <<env, session, frame, wlocals, rgbwlocals, slocals>>

force_reconnect_close ==
    /\ pc = "force_reconnect_close"
    /\ \E res \in Outcomes :
        /\ log' = Append(log, Ev("close", client, res, <<>>))
        /\ active_notify' = Closed(client, res)
    /\ client' = None
    /\ Return("None")
    /\ UNCHANGED <<env, connected, nclients, frame, wlocals, rgbwlocals,
                   slocals>>

(* ----------------------------- disconnect ----------------------------- *)

disconnect_begin ==
    /\ pc = "disconnect"
    /\ IF client # None /\ connected
       THEN Goto("disconnect_close")
       ELSE Return("None")
    /\ UNCHANGED <<env, session, frame, wlocals, rgbwlocals, slocals,
                   active_notify, log>>

\* Mutation of disconnect_close: the fields are reset after the try, not in
\* a finally, and the except returns: a raising disconnect leaves them.
disconnect_close_no_finally ==
    /\ pc = "disconnect_close"
    /\ \E res \in Outcomes :
        /\ log' = Append(log, Ev("close", client, res, <<>>))
        /\ active_notify' = Closed(client, res)
        /\ IF res = "ok"
           THEN connected' = FALSE /\ client' = None
           ELSE UNCHANGED <<connected, client>>
    /\ Return("None")
    /\ UNCHANGED <<env, nclients, frame, wlocals, rgbwlocals, slocals>>

\* await self._client.disconnect(); except: log; finally: reset both fields.
disconnect_close ==
    /\ pc = "disconnect_close"
    /\ \E res \in Outcomes :
        /\ log' = Append(log, Ev("close", client, res, <<>>))
        /\ active_notify' = Closed(client, res)
    /\ connected' = FALSE
    /\ client' = None
    /\ Return("None")
    /\ UNCHANGED <<env, nclients, frame, wlocals, rgbwlocals, slocals>>

(* -------------------------- _ensure_connected ------------------------- *)

\* Mutation of ensure_connected: auto_connect is not looked at.
ensure_connected_always ==
    /\ pc = "ensure_connected"
    /\ IF ~is_connected
       THEN Goto("connect")
       ELSE Return("True")
    /\ UNCHANGED <<env, session, frame, wlocals, rgbwlocals, slocals,
                   active_notify, log>>

\* return await self.connect() when not connected and auto_connect,
\* else return self.is_connected.
ensure_connected ==
    /\ pc = "ensure_connected"
    /\ IF ~is_connected /\ auto_connect
       THEN Goto("connect")
       ELSE Return(IF is_connected THEN "True" ELSE "False")
    /\ UNCHANGED <<env, session, frame, wlocals, rgbwlocals, slocals,
                   active_notify, log>>

(* --------------------------- _write_command --------------------------- *)

write_command_begin ==
    /\ pc = "write_command"
    /\ Call("ensure_connected", "write_command_connected")
    /\ UNCHANGED <<env, session, frame, wlocals, rgbwlocals, slocals,
                   active_notify, log>>

\* Mutation of write_command_connected: what _ensure_connected returned is
\* not looked at.
write_command_connected_unchecked ==
    /\ pc = "write_command_connected"
    /\ Goto("write_command_write")
    /\ UNCHANGED <<env, session, frame, wlocals, rgbwlocals, slocals,
                   active_notify, log>>

write_command_connected ==
    /\ pc = "write_command_connected"
    /\ IF ret = "True" THEN Goto("write_command_write") ELSE Return("False")
    /\ UNCHANGED <<env, session, frame, wlocals, rgbwlocals, slocals,
                   active_notify, log>>

\* The condition of the reconnect: Windows and "not connected" in str(e).
Retryable(res) == platformWindows /\ res = "not_connected"

\* Mutation of write_command_write: the except catches the retryable error
\* only, and any other exception leaves the operation.
write_command_write_raises ==
    /\ pc = "write_command_write"
    /\ \E res \in WriteOutcomes :
        /\ log' = Append(log, Ev("write", client, res, cmd))
        /\ IF res = "ok"
           THEN Return("True") /\ UNCHANGED result
           ELSE IF Retryable(res)
                THEN Call("force_reconnect", "write_command_reconnect")
                     /\ UNCHANGED result
                ELSE /\ result' = "TransportError"
                     /\ pc' = "done"
                     /\ stack' = <<>>
                     /\ UNCHANGED ret
    /\ UNCHANGED <<env, session, op, args, pre, status, wlocals, rgbwlocals,
                   slocals, active_notify>>

\* Mutation of write_command_write: the resend also follows a write that
\* was accepted.
write_command_write_sends_twice ==
    /\ pc = "write_command_write"
    /\ \E res \in WriteOutcomes :
        /\ log' = Append(log, Ev("write", client, res, cmd))
        /\ IF res = "ok"
           THEN Goto("write_command_retry")
           ELSE IF Retryable(res)
                THEN Call("force_reconnect", "write_command_reconnect")
                ELSE Return("False")
    /\ UNCHANGED <<env, session, frame, wlocals, rgbwlocals, slocals,
                   active_notify>>

\* await self._client.write_gatt_char(WRITE_CHARACTERISTIC, command) in the
\* try; in the except, the reconnect when the error is retryable.
write_command_write ==
    /\ pc = "write_command_write"
    /\ \E res \in WriteOutcomes :
        /\ log' = Append(log, Ev("write", client, res, cmd))
        /\ IF res = "ok"
           THEN Return("True")
           ELSE IF Retryable(res)
                THEN Call("force_reconnect", "write_command_reconnect")
                ELSE Return("False")
    /\ UNCHANGED <<env, session, frame, wlocals, rgbwlocals, slocals,
                   active_notify>>

write_command_reconnect ==
    /\ pc = "write_command_reconnect"
    /\ Call("ensure_connected", "write_command_reconnected")
    /\ UNCHANGED <<env, session, frame, wlocals, rgbwlocals, slocals,
                   active_notify, log>>

\* Mutation of write_command_reconnected: after the reconnect the write is
\* tried as the first one was, so that a resend that is refused reconnects
\* again, without end.
write_command_reconnected_loops ==
    /\ pc = "write_command_reconnected"
    /\ IF ret = "True" THEN Goto("write_command_write") ELSE Return("False")
    /\ UNCHANGED <<env, session, frame, wlocals, rgbwlocals, slocals,
                   active_notify, log>>

\* if await self._ensure_connected(): the resend; else return False.
write_command_reconnected ==
    /\ pc = "write_command_reconnected"
    /\ IF ret = "True" THEN Goto("write_command_retry") ELSE Return("False")
    /\ UNCHANGED <<env, session, frame, wlocals, rgbwlocals, slocals,
                   active_notify, log>>

\* Mutation of write_command_retry: a resend that fails with a retryable
\* error reconnects and resends again.
write_command_retry_again ==
    /\ pc = "write_command_retry"
    /\ \E res \in WriteOutcomes :
        /\ log' = Append(log, Ev("write", client, res, cmd))
        /\ IF res = "ok"
           THEN Return("True")
           ELSE IF Retryable(res)
                THEN Call("force_reconnect", "write_command_reconnect")
                ELSE Return("False")
    /\ UNCHANGED <<env, session, frame, wlocals, rgbwlocals, slocals,
                   active_notify>>

\* Mutation of write_command_retry: the return True of the resend is left
\* out, and the function falls through to return False.
write_command_retry_falls_through ==
    /\ pc = "write_command_retry"
    /\ \E res \in WriteOutcomes :
        /\ log' = Append(log, Ev("write", client, res, cmd))
        /\ Return("False")
    /\ UNCHANGED <<env, session, frame, wlocals, rgbwlocals, slocals,
                   active_notify>>

\* The resend: one more write_gatt_char; its failure is logged, and the
\* function falls through to return False.
write_command_retry ==
    /\ pc = "write_command_retry"
    /\ \E res \in WriteOutcomes :
        /\ log' = Append(log, Ev("write", client, res, cmd))
        /\ Return(IF res = "ok" THEN "True" ELSE "False")
    /\ UNCHANGED <<env, session, frame, wlocals, rgbwlocals, slocals,
                   active_notify>>

(* ------------------------ the public operations ----------------------- *)

\* A public coroutine is called on an idle controller (the caller's
\* contract: operations on one controller do not overlap).
Begin(name, arguments) ==
    /\ pc = "idle"
    /\ nclients + 2 <= MaxClients
    /\ op' = name
    /\ args' = arguments
    /\ pre' = [connected |-> connected, client |-> client,
                   nclients |-> nclients]
    /\ UNCHANGED <<env, session, rgbwlocals, slocals, active_notify, log,
                   status>>

\* The first await of an operation whose body is
\* return await self._write_command(command).
Send(command) ==
    /\ cmd' = command
    /\ wc_start' = Len(log)
    /\ wc_pre' = is_connected
    /\ pc' = "write_command"
    /\ stack' = <<"op_return">>
    /\ UNCHANGED <<ret, result>>

\* The operation raises ValueError before its first await.
Raise ==
    /\ result' = "ValueError"
    /\ pc' = "done"
    /\ UNCHANGED <<stack, ret, wlocals>>

call_connect ==
    /\ Begin("connect", <<>>)
    /\ pc' = "connect"
    /\ stack' = <<"op_return">>
    /\ UNCHANGED <<ret, result, wlocals>>

call_disconnect ==
    /\ Begin("disconnect", <<>>)
    /\ pc' = "disconnect"
    /\ stack' = <<"op_return">>
    /\ UNCHANGED <<ret, result, wlocals>>

call_power_on ==
    /\ Begin("power_on", <<>>)
    /\ Send(PowerFrame(POWER_ON))

call_power_off ==
    /\ Begin("power_off", <<>>)
    /\ Send(PowerFrame(POWER_OFF))

\* The arguments the colour operations are tried with: the ends of
\* [0,255], a value inside it and the first values outside it.
ByteArgs == {-1, 0, 1, 255, 256}

\* Mutation of ByteRange: 256 passes.
ByteRange_to_256(val) == 0 <= val /\ val <= 256

\* not 0 <= val <= 255
ByteRange(val) == 0 <= val /\ val <= 255

\* Mutation of set_rgb: the frame is built blue first.
set_rgb_blue_first(red, green, blue) ==
    IF \A val \in {red, green, blue} : ByteRange(val)
    THEN Send(RgbFrame(blue, green, red))
    ELSE Raise

\* set_rgb's body: the range check, then the RGB frame to _write_command.
set_rgb(red, green, blue) ==
    IF \A val \in {red, green, blue} : ByteRange(val)
    THEN Send(RgbFrame(red, green, blue))
    ELSE Raise

\* set_white's body.
set_white(intensity) ==
    IF ByteRange(intensity)
    THEN Send(WhiteFrame(intensity))
    ELSE Raise

call_set_rgb ==
    \E red \in ByteArgs, green \in ByteArgs, blue \in ByteArgs :
        /\ Begin("set_rgb", <<red, green, blue>>)
        /\ set_rgb(red, green, blue)

call_set_white ==
    \E intensity \in ByteArgs :
        /\ Begin("set_white", <<intensity>>)
        /\ set_white(intensity)

(* set_color_hex.  A string is the sequence of its characters. *)

LowerDigits == <<"0", "1", "2", "3", "4", "5", "6", "7", "8", "9",
                 "a", "b", "c", "d", "e", "f">>
UpperDigits == <<"0", "1", "2", "3", "4", "5", "6", "7", "8", "9",
                 "A", "B", "C", "D", "E", "F">>

IsHexDigit(c) == \E i \in 1..16 : LowerDigits[i] = c \/ UpperDigits[i] = c

DigitValue(c) ==
    (CHOOSE i \in 1..16 : LowerDigits[i] = c \/ UpperDigits[i] = c) - 1

\* str.lstrip(c): every leading c is removed.
RECURSIVE lstrip(_, _)
lstrip(text, c) ==
    IF text # <<>> /\ Head(text) = c THEN lstrip(Tail(text), c) ELSE text

\* Python's int(text, 16) of a text of two characters: two hex digits, or
\* one hex digit with a sign before it or a blank on either side of it;
\* anything else raises ValueError (ok = FALSE).
int16(text) ==
    LET a == text[1]
        b == text[2]
    IN  IF IsHexDigit(a) /\ IsHexDigit(b)
        THEN [ok |-> TRUE, value |-> 16 * DigitValue(a) + DigitValue(b)]
        ELSE IF a \in {"+", " "} /\ IsHexDigit(b)
        THEN [ok |-> TRUE, value |-> DigitValue(b)]
        ELSE IF a = "-" /\ IsHexDigit(b)
        THEN [ok |-> TRUE, value |-> 0 - DigitValue(b)]
        ELSE IF IsHexDigit(a) /\ b = " "
        THEN [ok |-> TRUE, value |-> DigitValue(a)]
        ELSE [ok |-> FALSE, value |-> 0]

\* The strings set_color_hex is tried with.
HexArgs == {
    <<"#", "f", "f", "8", "0", "0", "0">>,
    <<"f", "f", "8", "0", "0", "0">>,
    <<"#", "F", "F", "8", "0", "0", "0">>,
    <<"0", "0", "0", "1", "f", "e">>,
    <<"b", "a", "d">>,
    <<>>,
    <<"#">>,
    <<"#", "#", "f", "f", "8", "0", "0", "0">>,
    <<"#", "f", "f", "8", "0">>,
    <<"f", "f", "8", "0", "0", "0", "0">>,
    <<"f", "f", "8", "0", "0", "#">>,
    <<"g", "g", "0", "0", "0", "0">>,
    <<"0", "x", "0", "0", "0", "0">>,
    <<"+", "f", "+", "f", "+", "f">>,
    <<"-", "1", "0", "0", "0", "0">>,
    <<" ", "f", "8", " ", "0", "0">>,
    <<"f", "f", " ", " ", "0", "0">> }

\* set_color_hex's body: strip, length check, three int(.., 16), set_rgb;
\* a ValueError of any of them is raised again as ValueError.
set_color_hex(hex_color) ==
    LET hex == lstrip(hex_color, "#")
        red == int16(SubSeq(hex, 1, 2))
        green == int16(SubSeq(hex, 3, 4))
        blue == int16(SubSeq(hex, 5, 6))
    IN  IF Len(hex) # 6
        THEN Raise
        ELSE IF red.ok /\ green.ok /\ blue.ok
        THEN set_rgb(red.value, green.value, blue.value)
        ELSE Raise

call_set_color_hex ==
    \E hex_color \in HexArgs :
        /\ Begin("set_color_hex", <<hex_color>>)
        /\ set_color_hex(hex_color)

(* set_temperature.  brightness is in hundredths: 50 is 0.5.  The integer
   arithmetic below gives what the floating-point code gives at the
   brightnesses of BrightnessArgs. *)

Min2(a, b) == IF a <= b THEN a ELSE b
Max2(a, b) == IF a >= b THEN a ELSE b

\* The temperatures at which the curves of _kelvin_to_rgb are tabulated
\* (its power and logarithm terms are not integer arithmetic): every 250 K
\* up to 6750 K, every 3000 K above, and both sides of 1900 K and 6600 K.
KelvinSamples ==
    {1000, 1250, 1500, 1750, 1900, 1901, 1950, 2000, 2250, 2500,
     2700, 2750, 3000, 3250, 3500, 3750, 4000, 4250, 4500, 4750,
     5000, 5250, 5500, 5750, 6000, 6250, 6500, 6599, 6600, 6601,
     6700, 6750, 7000, 10000, 13000, 16000, 19000, 22000, 25000, 28000,
     31000, 34000, 37000, 40000}

\* 329.698727446 * ((temp - 60) ** -0.1332047592), rounded down, at the
\* samples above 6600 K.
RedPower(temperature) ==
    CASE temperature = 6601 -> 259
      [] temperature = 6700 -> 254
      [] temperature = 6750 -> 252
      [] temperature = 7000 -> 242
      [] temperature = 10000 -> 201
      [] temperature = 13000 -> 187
      [] temperature = 16000 -> 178
      [] temperature = 19000 -> 172
      [] temperature = 22000 -> 167
      [] temperature = 25000 -> 163
      [] temperature = 28000 -> 160
      [] temperature = 31000 -> 158
      [] temperature = 34000 -> 155
      [] temperature = 37000 -> 153
      [] temperature = 40000 -> 151

\* 99.4708025861 * math.log(temp) - 161.1195681661, rounded down, at the
\* samples up to 6600 K.
GreenLog(temperature) ==
    CASE temperature = 1000 -> 67
      [] temperature = 1250 -> 90
      [] temperature = 1500 -> 108
      [] temperature = 1750 -> 123
      [] temperature = 1900 -> 131
      [] temperature = 1901 -> 131
      [] temperature = 1950 -> 134
      [] temperature = 2000 -> 136
      [] temperature = 2250 -> 148
      [] temperature = 2500 -> 159
      [] temperature = 2700 -> 166
      [] temperature = 2750 -> 168
      [] temperature = 3000 -> 177
      [] temperature = 3250 -> 185
      [] temperature = 3500 -> 192
      [] temperature = 3750 -> 199
      [] temperature = 4000 -> 205
      [] temperature = 4250 -> 211
      [] temperature = 4500 -> 217
      [] temperature = 4750 -> 222
      [] temperature = 5000 -> 228
      [] temperature = 5250 -> 232
      [] temperature = 5500 -> 237
      [] temperature = 5750 -> 241
      [] temperature = 6000 -> 246
      [] temperature = 6250 -> 250
      [] temperature = 6500 -> 254
      [] temperature = 6599 -> 255
      [] temperature = 6600 -> 255

\* 288.1221695283 * ((temp - 60) ** -0.0755148492), rounded down.
GreenPower(temperature) ==
    CASE temperature = 6601 -> 251
      [] temperature = 6700 -> 248
      [] temperature = 6750 -> 247
      [] temperature = 7000 -> 242
      [] temperature = 10000 -> 218
      [] temperature = 13000 -> 209
      [] temperature = 16000 -> 203
      [] temperature = 19000 -> 199
      [] temperature = 22000 -> 196
      [] temperature = 25000 -> 193
      [] temperature = 28000 -> 191
      [] temperature = 31000 -> 189
      [] temperature = 34000 -> 188
      [] temperature = 37000 -> 186
      [] temperature = 40000 -> 185

\* 138.5177312231 * math.log(temp - 10) - 305.0447927307, rounded down, at
\* the samples between 1900 K and 6600 K.
BlueLog(temperature) ==
    CASE temperature = 1901 -> -1
      [] temperature = 1950 -> 6
      [] temperature = 2000 -> 13
      [] temperature = 2250 -> 44
      [] temperature = 2500 -> 70
      [] temperature = 2700 -> 87
      [] temperature = 2750 -> 91
      [] temperature = 3000 -> 109
      [] temperature = 3250 -> 126
      [] temperature = 3500 -> 140
      [] temperature = 3750 -> 154
      [] temperature = 4000 -> 166
      [] temperature = 4250 -> 177
      [] temperature = 4500 -> 187
      [] temperature = 4750 -> 196
      [] temperature = 5000 -> 205
      [] temperature = 5250 -> 214
      [] temperature = 5500 -> 222
      [] temperature = 5750 -> 229
      [] temperature = 6000 -> 236
      [] temperature = 6250 -> 243
      [] temperature = 6500 -> 250
      [] temperature = 6599 -> 252

\* max(0, min(255, value))
Clamp255(value) == Max2(0, Min2(255, value))

\* Mutation of kelvin_to_rgb: red is not capped at 255.
kelvin_to_rgb_red_uncapped(temperature) ==
    LET temp == Max2(1000, Min2(40000, temperature))
        red == IF temp <= 6600 THEN 255 ELSE Max2(0, RedPower(temp))
        green == IF temp <= 6600 THEN Clamp255(GreenLog(temp))
                 ELSE Clamp255(GreenPower(temp))
        blue == IF temp >= 6600 THEN 255
                ELSE IF temp <= 1900 THEN 0
                ELSE Clamp255(BlueLog(temp))
    IN  <<red, green, blue>>

\* _kelvin_to_rgb: the clamp to [1000,40000], then per channel the branch
\* on temp = temperature / 100, the curve, the clamp to [0,255] and int().
kelvin_to_rgb(temperature) ==
    LET temp == Max2(1000, Min2(40000, temperature))
        red == IF temp <= 6600 THEN 255 ELSE Clamp255(RedPower(temp))
        green == IF temp <= 6600 THEN Clamp255(GreenLog(temp))
                 ELSE Clamp255(GreenPower(temp))
        blue == IF temp >= 6600 THEN 255
                ELSE IF temp <= 1900 THEN 0
                ELSE Clamp255(BlueLog(temp))
    IN  <<red, green, blue>>

TemperatureArgs == {999, 1000, 2700, 4000, 5000, 6500, 40000, 40001}
BrightnessArgs == {-1, 0, 50, 100, 101}

\* int(channel * brightness), brightness in hundredths
Scaled(channel, brightness) == (channel * brightness) \div 100

\* min(255, int(channel * min(1.0, brightness * 1.2)))
Boosted(channel, brightness) ==
    Min2(255, (channel * Min2(1000, brightness * 12)) \div 1000)

\* whiteness > 0.8, whiteness = rgb_min / rgb_max if rgb_max > 0 else 1.0
VeryWhite(rgb) ==
    LET rgb_min == Min2(rgb[1], Min2(rgb[2], rgb[3]))
        rgb_max == Max2(rgb[1], Max2(rgb[2], rgb[3]))
    IN  IF rgb_max > 0 THEN 10 * rgb_min > 8 * rgb_max ELSE TRUE

\* Mutation of set_temperature: the white-LED branch is taken above 4000 K
\* only (temperature > 4000).
set_temperature_above_4000(temperature, brightness, use_white_leds) ==
    IF ~(1000 <= temperature /\ temperature <= 40000)
    THEN Raise
    ELSE IF ~(0 <= brightness /\ brightness <= 100)
    THEN Raise
    ELSE LET rgb == kelvin_to_rgb(temperature)
         IN  IF use_white_leds /\ temperature > 4000
             THEN IF VeryWhite(rgb)
                  THEN set_white(Scaled(255, brightness))
                  ELSE set_rgb(Scaled(rgb[1], brightness),
                               Scaled(rgb[2], brightness),
                               Scaled(rgb[3], brightness))
             ELSE set_rgb(Boosted(rgb[1], brightness),
                          Boosted(rgb[2], brightness),
                          Boosted(rgb[3], brightness))

set_temperature(temperature, brightness, use_white_leds) ==
    IF ~(1000 <= temperature /\ temperature <= 40000)
    THEN Raise
    ELSE IF ~(0 <= brightness /\ brightness <= 100)
    THEN Raise
    ELSE LET rgb == kelvin_to_rgb(temperature)
         IN  IF use_white_leds /\ temperature >= 4000
             THEN IF VeryWhite(rgb)
                  THEN set_white(Scaled(255, brightness))
                  ELSE set_rgb(Scaled(rgb[1], brightness),
                               Scaled(rgb[2], brightness),
                               Scaled(rgb[3], brightness))
             ELSE set_rgb(Boosted(rgb[1], brightness),
                          Boosted(rgb[2], brightness),
                          Boosted(rgb[3], brightness))

call_set_temperature ==
    \E temperature \in TemperatureArgs, brightness \in BrightnessArgs,
       use_white_leds \in BOOLEAN :
        /\ Begin("set_temperature", <<temperature, brightness, use_white_leds>>)
        /\ set_temperature(temperature, brightness, use_white_leds)

\* class TrionesMode(Enum): the values of its members, in the order of
\* their declaration (STATIC_COLOR, SEVEN_COLOR_CROSS_FADE, ...,
\* SEVEN_COLOR_JUMPING).
TrionesMode == <<65, 37, 38, 39, 40, 41, 42, 43, 44, 45, 46, 47, 48, 49, 50,
                 51, 52, 53, 54, 55, 56>>

\* The modes and speeds set_built_in_mode is tried with: as an int, every
\* value of 0x25..0x38, 0x41, and their neighbours; as a member of
\* TrionesMode, each of them; both ends of 1..255 and their neighbours.
ModeArgs ==
    {<<"int", value>> : value \in (36..57) \cup {64, 65, 66}}
    \cup {<<"member", i>> : i \in 1..Len(TrionesMode)}
SpeedArgs == {0, 1, 255, 256}

\* if isinstance(mode, TrionesMode): mode = mode.value
mode_value(mode) ==
    IF mode[1] = "member" THEN TrionesMode[mode[2]] ELSE mode[2]

\* Mutation of ModeRange: the static colour marker 0x41 is left out.
ModeRange_animations_only(mode) == 37 <= mode /\ mode <= 56

\* 0x25 <= mode <= 0x38 or mode == 0x41
ModeRange(mode) == (37 <= mode /\ mode <= 56) \/ mode = 65

\* 1 <= speed <= 255
SpeedRange(speed) == 1 <= speed /\ speed <= 255

call_set_built_in_mode ==
    \E mode \in ModeArgs, speed \in SpeedArgs :
        /\ Begin("set_built_in_mode", <<mode, speed>>)
        /\ IF ModeRange(mode_value(mode)) /\ SpeedRange(speed)
           THEN Send(ModeFrame(mode_value(mode), speed))
           ELSE Raise

(* ------------------------------ set_rgbw ------------------------------ *)

\* _write_command(command) called from inside set_rgbw, to come back at
\* `back`.
SendFrom(command, back) ==
    /\ cmd' = command
    /\ wc_start' = Len(log)
    /\ wc_pre' = is_connected
    /\ pc' = "write_command"
    /\ stack' = <<back>>
    /\ UNCHANGED ret

\* set_rgbw up to its first await: the range check, success = True, the
\* all-off frame, else the RGB frame when a colour is set, else the white one.
call_set_rgbw ==
    \E red \in ByteArgs, green \in ByteArgs, blue \in ByteArgs,
       white \in ByteArgs :
        /\ pc = "idle"
        /\ nclients + 2 <= MaxClients
        /\ op' = "set_rgbw"
        /\ args' = <<red, green, blue, white>>
        /\ pre' = [connected |-> connected, client |-> client,
                   nclients |-> nclients]
        /\ success' = TRUE
        /\ IF ~(\A val \in {red, green, blue, white} : ByteRange(val))
           THEN Raise
           ELSE IF red = 0 /\ green = 0 /\ blue = 0 /\ white = 0
           THEN Send(OffFrame)
           ELSE IF red > 0 \/ green > 0 \/ blue > 0
           THEN SendFrom(RgbFrame(red, green, blue), "set_rgbw_rgb_sent")
                /\ UNCHANGED result
           ELSE SendFrom(WhiteFrame(white), "set_rgbw_white_sent")
                /\ UNCHANGED result
        /\ UNCHANGED <<env, session, slocals, active_notify, log, status>>

\* After the RGB frame's _write_command: success = False when it failed,
\* the 0.1 s sleep, then the white frame when white > 0, else return success.
set_rgbw_rgb_sent ==
    /\ pc = "set_rgbw_rgb_sent"
    /\ success' = (success /\ ret = "True")
    /\ IF args[4] > 0
       THEN /\ SendFrom(WhiteFrame(args[4]), "set_rgbw_white_sent")
            /\ UNCHANGED result
       ELSE /\ result' = (IF success' THEN "True" ELSE "False")
            /\ pc' = "done"
            /\ UNCHANGED <<stack, ret, wlocals>>
    /\ UNCHANGED <<env, session, op, args, pre, status, slocals,
                   active_notify, log>>

\* set_rgbw returning what the last _write_command returned.
set_rgbw_white_sent_last_only ==
    /\ pc = "set_rgbw_white_sent"
    /\ success' = (ret = "True")
    /\ result' = (IF success' THEN "True" ELSE "False")
    /\ pc' = "done"
    /\ UNCHANGED <<env, session, stack, ret, op, args, pre, status, wlocals,
                   slocals, active_notify, log>>

\* After the white frame's _write_command: return success.
set_rgbw_white_sent ==
    /\ pc = "set_rgbw_white_sent"
    /\ success' = (success /\ ret = "True")
    /\ result' = (IF success' THEN "True" ELSE "False")
    /\ pc' = "done"
    /\ UNCHANGED <<env, session, stack, ret, op, args, pre, status, wlocals,
                   slocals, active_notify, log>>

(* ----------------------------- get_status ----------------------------- *)

\* The byte strings a notification may carry: two well-formed status
\* frames, one with a wrong footer, one of 11 bytes, and the empty one.
StatusOn == <<102, 4, 35, 65, 32, 1, 0, 127, 0, 0, 6, 153>>
StatusOff == <<102, 21, 36, 37, 16, 255, 255, 0, 1, 9, 3, 153>>
NotifyData == {
    StatusOn,
    StatusOff,
    <<102, 4, 35, 65, 32, 1, 0, 127, 0, 0, 6, 152>>,
    <<102, 4, 35, 65, 32, 1, 0, 127, 0, 0, 153>>,
    <<>> }

\* Mutation of parse_status_response: the footer byte is not looked at.
parse_status_response_header_only(response) ==
    IF response = <<>> \/ Len(response) # 12
    THEN [ok |-> FALSE, status |-> NoStatus]
    ELSE IF response[1] # HEADER_MAGIC
    THEN [ok |-> FALSE, status |-> NoStatus]
    ELSE [ok |-> TRUE,
          status |-> [is_on |-> (response[3] = POWER_ON),
                      mode |-> response[4],
                      speed |-> response[6],
                      red |-> response[7],
                      green |-> response[8],
                      blue |-> response[9],
                      white |-> response[10],
                      raw_response |-> response]]

\* Mutation of parse_status_response: the fields after the mode are read one
\* byte early (speed = response[4], red = response[5], ...).
parse_status_response_off_by_one(response) ==
    IF response = <<>> \/ Len(response) # 12
    THEN [ok |-> FALSE, status |-> NoStatus]
    ELSE IF response[1] # HEADER_MAGIC \/ response[12] # FOOTER_MAGIC
    THEN [ok |-> FALSE, status |-> NoStatus]
    ELSE [ok |-> TRUE,
          status |-> [is_on |-> (response[3] = POWER_ON),
                      mode |-> response[4],
                      speed |-> response[5],
                      red |-> response[6],
                      green |-> response[7],
                      blue |-> response[8],
                      white |-> response[9],
                      raw_response |-> response]]

\* TrionesStatus.rgb_tuple
rgb_tuple(st) == <<st.red, st.green, st.blue>>

\* _parse_status_response: None (ok = FALSE) unless 12 bytes between the
\* two magic bytes.
parse_status_response(response) ==
    IF response = <<>> \/ Len(response) # 12
    THEN [ok |-> FALSE, status |-> NoStatus]
    ELSE IF response[1] # HEADER_MAGIC \/ response[12] # FOOTER_MAGIC
    THEN [ok |-> FALSE, status |-> NoStatus]
    ELSE [ok |-> TRUE,
          status |-> [is_on |-> (response[3] = POWER_ON),
                      mode |-> response[4],
                      speed |-> response[6],
                      red |-> response[7],
                      green |-> response[8],
                      blue |-> response[9],
                      white |-> response[10],
                      raw_response |-> response]]

call_get_status ==
    /\ Begin("get_status", <<>>)
    /\ pc' = "get_status_response"
    /\ stack' = <<"get_status_parse">>
    /\ UNCHANGED <<ret, result, wlocals>>

get_status_response_begin ==
    /\ pc = "get_status_response"
    /\ Call("ensure_connected", "get_status_response_connected")
    /\ UNCHANGED <<env, session, frame, wlocals, rgbwlocals, slocals,
                   active_notify, log>>

\* if not connected: return None; else response_data = None and subscribe.
get_status_response_connected ==
    /\ pc = "get_status_response_connected"
    /\ response_data' = NoneBytes
    /\ IF ret = "True" THEN Goto("start_notify_1") ELSE Return("None")
    /\ UNCHANGED <<env, session, frame, wlocals, rgbwlocals, received,
                   active_notify, log>>

\* await self._client.start_notify(char, notification_handler) in its own
\* try: a failure is logged and the loop goes on.
start_notify(char, next) ==
    /\ \E res \in Outcomes :
        /\ log' = Append(log, Ev("start_notify", client, res, <<char>>))
        /\ active_notify' = IF res = "ok"
                            THEN active_notify \cup {<<client, char>>}
                            ELSE active_notify
    /\ Goto(next)
    /\ UNCHANGED <<env, session, frame, wlocals, rgbwlocals, slocals>>

start_notify_1 ==
    /\ pc = "start_notify_1"
    /\ start_notify(NOTIFY_CHARACTERISTIC_1, "start_notify_2")

start_notify_2 ==
    /\ pc = "start_notify_2"
    /\ start_notify(NOTIFY_CHARACTERISTIC_2, "send_status_request")

\* if await self._write_command(bytes([0xEF, 0x01, 0x77])): ...
send_status_request ==
    /\ pc = "send_status_request"
    /\ cmd' = StatusRequestFrame
    /\ wc_start' = Len(log)
    /\ wc_pre' = is_connected
    /\ Call("write_command", "status_request_sent")
    /\ UNCHANGED <<env, session, frame, rgbwlocals, slocals, active_notify,
                   log>>

\* ... await asyncio.sleep(1.5) when the request was written.
status_request_sent ==
    /\ pc = "status_request_sent"
    /\ IF ret = "True" THEN Goto("wait_response") ELSE Goto("stop_notify_1")
    /\ UNCHANGED <<env, session, frame, wlocals, rgbwlocals, slocals,
                   active_notify, log>>

\* Mutation of wait_response: a wait that ends without a response marks
\* the session disconnected.
wait_response_timeout_disconnects ==
    /\ pc = "wait_response"
    /\ Goto("stop_notify_1")
    /\ connected' = (connected /\ response_data # NoneBytes)
    /\ UNCHANGED <<env, client, nclients, frame, wlocals, rgbwlocals,
                   slocals, active_notify, log>>

\* await asyncio.sleep(1.5) returns.
wait_response ==
    /\ pc = "wait_response"
    /\ Goto("stop_notify_1")
    /\ UNCHANGED <<env, session, frame, wlocals, rgbwlocals, slocals,
                   active_notify, log>>

\* await self._client.stop_notify(char) in its own try with a bare except:
\* with no client the AttributeError is swallowed and nothing is called.
stop_notify(char) ==
    IF client = None
    THEN UNCHANGED <<log, active_notify>>
    ELSE \E res \in Outcomes :
            /\ log' = Append(log, Ev("stop_notify", client, res, <<char>>))
            /\ active_notify' = IF res = "ok"
                                THEN active_notify \ {<<client, char>>}
                                ELSE active_notify

stop_notify_1 ==
    /\ pc = "stop_notify_1"
    /\ stop_notify(NOTIFY_CHARACTERISTIC_1)
    /\ Goto("stop_notify_2")
    /\ UNCHANGED <<env, session, frame, wlocals, rgbwlocals, slocals>>

\* The second stop_notify, then return response_data.
stop_notify_2 ==
    /\ pc = "stop_notify_2"
    /\ stop_notify(NOTIFY_CHARACTERISTIC_2)
    /\ Return(IF response_data = NoneBytes THEN "None" ELSE "bytes")
    /\ UNCHANGED <<env, session, frame, wlocals, rgbwlocals, slocals>>

\* The places where the coroutine is suspended in an await, so that the
\* event loop may run the notification handler.
Suspended == {"connect_open", "connect_cleanup", "force_reconnect_close",
              "write_command_write", "write_command_retry",
              "start_notify_2", "wait_response", "stop_notify_1",
              "stop_notify_2"}

\* notification_handler(sender, data): response_data = data.
handle_notification(data) ==
    /\ response_data' = data
    /\ received' = Append(received, data)
    /\ UNCHANGED <<env, session, pc, stack, ret, frame, wlocals, rgbwlocals,
                   active_notify, log>>

\* The event loop calls the handler while the request is suspended and a
\* subscription is active.
notification_handler ==
    /\ pc \in Suspended
    /\ active_notify # {}
    /\ Len(received) < MaxNotifs
    /\ \E data \in NotifyData : handle_notification(data)

\* get_status: the response parsed when it is not None and not empty.
get_status_parse ==
    /\ pc = "get_status_parse"
    /\ LET parsed == parse_status_response(response_data)
       IN  IF ret = "bytes" /\ response_data # <<>> /\ parsed.ok
           THEN result' = "Status" /\ status' = parsed.status
           ELSE result' = "None" /\ status' = NoStatus
    /\ pc' = "done"
    /\ UNCHANGED <<env, session, stack, ret, op, args, pre, wlocals,
                   rgbwlocals, slocals, active_notify, log>>

\* The operation returns what its last call returned.
op_return ==
    /\ pc = "op_return"
    /\ result' = ret
    /\ pc' = "done"
    /\ UNCHANGED <<env, session, stack, ret, op, args, pre, status, wlocals,
                   rgbwlocals, slocals, active_notify, log>>

\* The client a get_status on a connected controller wrote its request on,
\* when that write was accepted and no notification came; else None.
TimedOutOn ==
    IF /\ op = "get_status"
       /\ pre.connected /\ pre.client # None
       /\ received = <<>>
       /\ log # <<>>
       /\ \E i \in 1..Len(log) : log[i].ev = "write" /\ log[i].res = "ok"
    THEN log[CHOOSE i \in 1..Len(log) :
                 log[i].ev = "write" /\ log[i].res = "ok"].cl
    ELSE None

\* The caller has the result; the controller is idle again.  What the
\* finished call held (its locals, its handler) is gone.
finish ==
    /\ pc = "done"
    /\ pc' = "idle"
    /\ stack' = <<>>
    /\ ret' = "None"
    /\ op' = "none"
    /\ args' = <<>>
    /\ pre' = [connected |-> FALSE, client |-> None, nclients |-> 0]
    /\ cmd' = <<>>
    /\ wc_start' = 0
    /\ wc_pre' = FALSE
    /\ success' = TRUE
    /\ response_data' = NoneBytes
    /\ received' = <<>>
    /\ active_notify' = {}
    /\ log' = <<>>
    /\ result' = "pending"
    /\ status' = NoStatus
    /\ prev' = TimedOutOn
    /\ UNCHANGED <<platformWindows, auto_connect, device, peer, awaiting,
                   session>>

Next ==
    \/ call_connect
    \/ call_disconnect
    \/ call_power_on
    \/ call_power_off
    \/ call_set_rgb
    \/ call_set_white
    \/ call_set_built_in_mode
    \/ call_set_color_hex
    \/ call_set_temperature
    \/ call_set_rgbw
    \/ call_get_status
    \/ connect_begin
    \/ connect_open
    \/ connect_cleanup
    \/ force_reconnect_begin
    \/ force_reconnect_close
    \/ disconnect_begin
    \/ disconnect_close
    \/ ensure_connected
    \/ write_command_begin
    \/ write_command_connected
    \/ write_command_write
    \/ write_command_reconnect
    \/ write_command_reconnected
    \/ write_command_retry
    \/ set_rgbw_rgb_sent
    \/ set_rgbw_white_sent
    \/ get_status_response_begin
    \/ get_status_response_connected
    \/ start_notify_1
    \/ start_notify_2
    \/ send_status_request
    \/ status_request_sent
    \/ wait_response
    \/ stop_notify_1
    \/ stop_notify_2
    \/ notification_handler
    \/ get_status_parse
    \/ op_return
    \/ finish

Spec == Init /\ [][Next]_vars

\* One operation called on a controller that is as constructed or holds a
\* session on client 1, run until it returns.
LiveInit ==
    /\ platformWindows \in BOOLEAN
    /\ auto_connect \in BOOLEAN
    /\ connected \in BOOLEAN
    /\ client = (IF connected THEN 1 ELSE None)
    /\ nclients = (IF connected THEN 1 ELSE 0)
    /\ pc = "idle"
    /\ stack = <<>>
    /\ ret = "None"
    /\ op = "none"
    /\ args = <<>>
    /\ pre = [connected |-> FALSE, client |-> None, nclients |-> 0]
    /\ cmd = <<>>
    /\ wc_start = 0
    /\ wc_pre = FALSE
    /\ success = TRUE
    /\ response_data = NoneBytes
    /\ received = <<>>
    /\ active_notify = {}
    /\ log = <<>>
    /\ result = "pending"
    /\ status = NoStatus
    /\ prev = None
    /\ device = NoDevice
    /\ peer = NoPeer
    /\ awaiting = None

LiveNext ==
    \/ call_connect
    \/ call_disconnect
    \/ call_power_on
    \/ call_power_off
    \/ call_set_rgb
    \/ call_set_white
    \/ call_set_built_in_mode
    \/ call_set_color_hex
    \/ call_set_temperature
    \/ call_set_rgbw
    \/ call_get_status
    \/ connect_begin
    \/ connect_open
    \/ connect_cleanup
    \/ force_reconnect_begin
    \/ force_reconnect_close
    \/ disconnect_begin
    \/ disconnect_close
    \/ ensure_connected
    \/ write_command_begin
    \/ write_command_connected
    \/ write_command_write
    \/ write_command_reconnect
    \/ write_command_reconnected
    \/ write_command_retry
    \/ set_rgbw_rgb_sent
    \/ set_rgbw_white_sent
    \/ get_status_response_begin
    \/ get_status_response_connected
    \/ start_notify_1
    \/ start_notify_2
    \/ send_status_request
    \/ status_request_sent
    \/ wait_response
    \/ stop_notify_1
    \/ stop_notify_2
    \/ notification_handler
    \/ get_status_parse
    \/ op_return

\* Every transport call and every sleep an operation awaits returns or
\* raises, and the event loop then resumes the coroutine: a step that
\* moves the operation on is taken when it stays possible.
Resume == LiveNext /\ pc' # pc

SpecLive == LiveInit /\ [][LiveNext]_vars /\ WF_vars(Resume)

(* -------------------------- two controllers --------------------------- *)

\* Two controllers, each running its own operations on one event loop.
\* The variables above are those of the controller whose coroutine is
\* running; peer holds the other one, suspended at an await or idle.  The
\* platform and the transport (which makes the BleakClient objects) are
\* the same for both.

\* What a controller owns: the fields __init__ sets, and the frame of the
\* operation running on it.
Own ==
    [auto_connect |-> auto_connect,
     connected |-> connected,
     client |-> client,
     pc |-> pc,
     stack |-> stack,
     ret |-> ret,
     op |-> op,
     args |-> args,
     pre |-> pre,
     cmd |-> cmd,
     wc_start |-> wc_start,
     wc_pre |-> wc_pre,
     success |-> success,
     response_data |-> response_data,
     received |-> received,
     active_notify |-> active_notify,
     log |-> log,
     result |-> result,
     status |-> status,
     prev |-> prev]

\* TrionesController(device, auto_connect), no operation called yet.
Constructed(ac) ==
    [auto_connect |-> ac,
     connected |-> FALSE,
     client |-> None,
     pc |-> "idle",
     stack |-> <<>>,
     ret |-> "None",
     op |-> "none",
     args |-> <<>>,
     pre |-> [connected |-> FALSE, client |-> None, nclients |-> 0],
     cmd |-> <<>>,
     wc_start |-> 0,
     wc_pre |-> FALSE,
     success |-> TRUE,
     response_data |-> NoneBytes,
     received |-> <<>>,
     active_notify |-> {},
     log |-> <<>>,
     result |-> "pending",
     status |-> NoStatus,
     prev |-> None]

PairInit ==
    /\ platformWindows \in BOOLEAN
    /\ auto_connect \in BOOLEAN
    /\ connected = FALSE
    /\ client = None
    /\ nclients = 0
    /\ pc = "idle"
    /\ stack = <<>>
    /\ ret = "None"
    /\ op = "none"
    /\ args = <<>>
    /\ pre = [connected |-> FALSE, client |-> None, nclients |-> 0]
    /\ cmd = <<>>
    /\ wc_start = 0
    /\ wc_pre = FALSE
    /\ success = TRUE
    /\ response_data = NoneBytes
    /\ received = <<>>
    /\ active_notify = {}
    /\ log = <<>>
    /\ result = "pending"
    /\ status = NoStatus
    /\ prev = None
    /\ device = NoDevice
    /\ peer \in {Constructed(ac) : ac \in BOOLEAN}
    /\ awaiting = None

\* Mutation of switch: the client is one field both controllers share (a
\* class attribute), not a field of each.
switch_shared_client ==
    /\ peer' = Own
    /\ auto_connect' = peer.auto_connect
    /\ connected' = peer.connected
    /\ pc' = peer.pc
    /\ stack' = peer.stack
    /\ ret' = peer.ret
    /\ op' = peer.op
    /\ args' = peer.args
    /\ pre' = peer.pre
    /\ cmd' = peer.cmd
    /\ wc_start' = peer.wc_start
    /\ wc_pre' = peer.wc_pre
    /\ success' = peer.success
    /\ response_data' = peer.response_data
    /\ received' = peer.received
    /\ active_notify' = peer.active_notify
    /\ log' = peer.log
    /\ result' = peer.result
    /\ status' = peer.status
    /\ prev' = peer.prev
    /\ UNCHANGED <<platformWindows, nclients, device, client, awaiting>>

\* The running coroutine is suspended at its await (or its controller is
\* idle) and the event loop runs the other controller.
switch ==
    /\ peer' = Own
    /\ auto_connect' = peer.auto_connect
    /\ connected' = peer.connected
    /\ client' = peer.client
    /\ pc' = peer.pc
    /\ stack' = peer.stack
    /\ ret' = peer.ret
    /\ op' = peer.op
    /\ args' = peer.args
    /\ pre' = peer.pre
    /\ cmd' = peer.cmd
    /\ wc_start' = peer.wc_start
    /\ wc_pre' = peer.wc_pre
    /\ success' = peer.success
    /\ response_data' = peer.response_data
    /\ received' = peer.received
    /\ active_notify' = peer.active_notify
    /\ log' = peer.log
    /\ result' = peer.result
    /\ status' = peer.status
    /\ prev' = peer.prev
    /\ UNCHANGED <<platformWindows, nclients, device, awaiting>>

PairNext ==
    \/ call_connect
    \/ call_disconnect
    \/ call_power_on
    \/ connect_begin
    \/ connect_open
    \/ connect_cleanup
    \/ force_reconnect_begin
    \/ force_reconnect_close
    \/ disconnect_begin
    \/ disconnect_close
    \/ ensure_connected
    \/ write_command_begin
    \/ write_command_connected
    \/ write_command_write
    \/ write_command_reconnect
    \/ write_command_reconnected
    \/ write_command_retry
    \/ op_return
    \/ finish
    \/ switch

SpecPair == PairInit /\ [][PairNext]_vars

(* ----------------- two coroutines on one controller ------------------ *)

\* connect() and disconnect() called on one controller by two tasks of one
\* event loop, against the caller's contract.  The variables pc, op, log,
\* result and awaiting are those of the task that is running; peer holds
\* those of the other task; the controller's fields are the same for both.
\* connect is taken one await at a time: a task evaluates self._client
\* before it awaits a call on it, and again after the await.  Each task
\* makes one call.

Task == [pc |-> pc, op |-> op, log |-> log, result |-> result,
         awaiting |-> awaiting]

IdleTask == [pc |-> "idle", op |-> "none", log |-> <<>>,
             result |-> "pending", awaiting |-> None]

\* What no step of the two tasks changes.
untouched == <<platformWindows, auto_connect, device, prev, stack, ret,
               args, pre, cmd, wc_start, wc_pre, success, response_data,
               received, active_notify, status>>

\* The controller is as constructed, or holds a session on client 1.
OverlapInit ==
    /\ platformWindows \in BOOLEAN
    /\ auto_connect \in BOOLEAN
    /\ connected \in BOOLEAN
    /\ client = (IF connected THEN 1 ELSE None)
    /\ nclients = (IF connected THEN 1 ELSE 0)
    /\ pc = "idle"
    /\ stack = <<>>
    /\ ret = "None"
    /\ op = "none"
    /\ args = <<>>
    /\ pre = [connected |-> connected, client |-> client,
              nclients |-> nclients]
    /\ cmd = <<>>
    /\ wc_start = 0
    /\ wc_pre = FALSE
    /\ success = TRUE
    /\ response_data = NoneBytes
    /\ received = <<>>
    /\ active_notify = {}
    /\ log = <<>>
    /\ result = "pending"
    /\ status = NoStatus
    /\ prev = None
    /\ device = NoDevice
    /\ peer = IdleTask
    /\ awaiting = None

task_call_connect ==
    /\ pc = "idle"
    /\ nclients < MaxClients
    /\ op' = "connect"
    /\ pc' = "task_connect"
    /\ result' = "pending"
    /\ UNCHANGED <<untouched, session, log, peer, awaiting>>

task_call_disconnect ==
    /\ pc = "idle"
    /\ op' = "disconnect"
    /\ pc' = "task_disconnect"
    /\ result' = "pending"
    /\ UNCHANGED <<untouched, session, log, peer, awaiting>>

\* Lines 130-135, up to await self._client.connect().
task_connect_begin ==
    /\ pc = "task_connect"
    /\ IF is_connected
       THEN /\ result' = "True"
            /\ pc' = "done"
            /\ UNCHANGED <<client, nclients, awaiting>>
       ELSE /\ client' = nclients + 1
            /\ nclients' = nclients + 1
            /\ awaiting' = nclients + 1
            /\ pc' = "task_connect_open"
            /\ UNCHANGED result
    /\ UNCHANGED <<untouched, connected, op, log, peer>>

\* The awaited connect() returns, then await asyncio.sleep(0.5); or it
\* raises: the except block up to await self._client.disconnect(), on the
\* client the field holds by then.
task_connect_open ==
    /\ pc = "task_connect_open"
    /\ \E res \in Outcomes :
        /\ log' = Append(log, Ev("open", awaiting, res, <<>>))
        /\ IF res = "ok"
           THEN /\ pc' = "task_connect_settle"
                /\ UNCHANGED <<connected, awaiting, result>>
           ELSE /\ connected' = FALSE
                /\ IF client # None
                   THEN /\ awaiting' = client
                        /\ pc' = "task_connect_cleanup"
                        /\ UNCHANGED result
                   ELSE /\ result' = "False"
                        /\ pc' = "done"
                        /\ UNCHANGED awaiting
    /\ UNCHANGED <<untouched, client, nclients, op, peer>>

\* After the first sleep: self._client.services is read inside a try whose
\* except swallows every Exception (the field may be None by now), then
\* await asyncio.sleep(0.2).
task_connect_settle ==
    /\ pc = "task_connect_settle"
    /\ pc' = "task_connect_stable"
    /\ UNCHANGED <<untouched, session, op, log, result, peer, awaiting>>

\* After the second sleep: self._connected = True; return True.
task_connect_stable ==
    /\ pc = "task_connect_stable"
    /\ connected' = TRUE
    /\ result' = "True"
    /\ pc' = "done"
    /\ UNCHANGED <<untouched, client, nclients, op, log, peer, awaiting>>

\* The awaited disconnect() of the except block returns or raises;
\* self._client = None; return False.
task_connect_cleanup ==
    /\ pc = "task_connect_cleanup"
    /\ \E res \in Outcomes :
        log' = Append(log, Ev("close", awaiting, res, <<>>))
    /\ client' = None
    /\ result' = "False"
    /\ pc' = "done"
    /\ UNCHANGED <<untouched, connected, nclients, op, peer, awaiting>>

\* disconnect(), up to await self._client.disconnect().
task_disconnect_begin ==
    /\ pc = "task_disconnect"
    /\ IF client # None /\ connected
       THEN /\ awaiting' = client
            /\ pc' = "task_disconnect_close"
            /\ UNCHANGED result
       ELSE /\ result' = "None"
            /\ pc' = "done"
            /\ UNCHANGED awaiting
    /\ UNCHANGED <<untouched, session, op, log, peer>>

\* The awaited disconnect() returns or raises; finally: both fields reset.
task_disconnect_close ==
    /\ pc = "task_disconnect_close"
    /\ \E res \in Outcomes :
        log' = Append(log, Ev("close", awaiting, res, <<>>))
    /\ connected' = FALSE
    /\ client' = None
    /\ result' = "None"
    /\ pc' = "done"
    /\ UNCHANGED <<untouched, nclients, op, peer, awaiting>>

\* The running task is suspended at its await (or has nothing to run) and
\* the event loop runs the other task.
task_switch ==
    /\ peer' = Task
    /\ pc' = peer.pc
    /\ op' = peer.op
    /\ log' = peer.log
    /\ result' = peer.result
    /\ awaiting' = peer.awaiting
    /\ UNCHANGED <<untouched, session>>

OverlapNext ==
    \/ task_call_connect
    \/ task_call_disconnect
    \/ task_connect_begin
    \/ task_connect_open
    \/ task_connect_settle
    \/ task_connect_stable
    \/ task_connect_cleanup
    \/ task_disconnect_begin
    \/ task_disconnect_close
    \/ task_switch

SpecOverlap == OverlapInit /\ [][OverlapNext]_vars

(* ------------------ the controller and a test light ------------------ *)

\* A light that accepts every transport call, keeps the colour of the last
\* RGB frame written to it and its power state, and answers each status
\* request with one notification: a 12-byte status frame holding both.

RECURSIVE DeviceAfter(_, _)
DeviceAfter(d, events) ==
    IF events = <<>> THEN d
    ELSE LET e == Head(events)
             data == e.data
             next ==
                 IF e.ev # "write" \/ e.res # "ok" THEN d
                 ELSE IF Len(data) = 7 /\ data[1] = 86 /\ data[6] = 240
                         /\ data[7] = 170
                 THEN [d EXCEPT !.rgb = <<data[2], data[3], data[4]>>]
                 ELSE IF Len(data) = 3 /\ data[1] = 204 /\ data[3] = 51
                 THEN [d EXCEPT !.on = (data[2] = 35)]
                 ELSE d
         IN  DeviceAfter(next, Tail(events))

DeviceUpToDate == device = DeviceAfter(device, log)

DeviceStatusFrame ==
    LET rgb == IF device.rgb = <<>> THEN <<0, 0, 0>> ELSE device.rgb
    IN  <<102, 4, IF device.on THEN 35 ELSE 36, 65, 32, 1,
          rgb[1], rgb[2], rgb[3], 0, 6, 153>>

StubInit ==
    /\ platformWindows \in BOOLEAN
    /\ auto_connect \in BOOLEAN
    /\ connected = FALSE
    /\ client = None
    /\ nclients = 0
    /\ pc = "idle"
    /\ stack = <<>>
    /\ ret = "None"
    /\ op = "none"
    /\ args = <<>>
    /\ pre = [connected |-> FALSE, client |-> None, nclients |-> 0]
    /\ cmd = <<>>
    /\ wc_start = 0
    /\ wc_pre = FALSE
    /\ success = TRUE
    /\ response_data = NoneBytes
    /\ received = <<>>
    /\ active_notify = {}
    /\ log = <<>>
    /\ result = "pending"
    /\ status = NoStatus
    /\ prev = None
    /\ device \in {[on |-> on, rgb |-> <<>>] : on \in BOOLEAN}
    /\ peer = NoPeer
    /\ awaiting = None

\* The light takes in what was written to it.
device_receives ==
    /\ ~DeviceUpToDate
    /\ device' = DeviceAfter(device, log)
    /\ UNCHANGED <<platformWindows, auto_connect, prev, peer, awaiting,
                   session, pc, stack,
                   ret, frame, wlocals, rgbwlocals, slocals, active_notify,
                   log>>

\* The light answers the status request, once, during the wait.
device_answers ==
    /\ DeviceUpToDate
    /\ pc = "wait_response"
    /\ received = <<>>
    /\ active_notify # {}
    /\ handle_notification(DeviceStatusFrame)

\* A step of the controller with this light at the other end: the light has
\* taken in what was written, no transport call raises, and the wait for
\* the response ends after the light's answer.
Works(step) ==
    /\ DeviceUpToDate
    /\ pc = "wait_response" => received # <<>>
    /\ step
    /\ ~Failed(log')

StubNext ==
    \/ device_receives
    \/ device_answers
    \/ Works(call_connect)
    \/ Works(call_disconnect)
    \/ Works(call_power_on)
    \/ Works(call_power_off)
    \/ Works(call_set_rgb)
    \/ Works(call_get_status)
    \/ Works(connect_begin)
    \/ Works(connect_open)
    \/ Works(disconnect_begin)
    \/ Works(disconnect_close)
    \/ Works(ensure_connected)
    \/ Works(write_command_begin)
    \/ Works(write_command_connected)
    \/ Works(write_command_write)
    \/ Works(get_status_response_begin)
    \/ Works(get_status_response_connected)
    \/ Works(start_notify_1)
    \/ Works(start_notify_2)
    \/ Works(send_status_request)
    \/ Works(status_request_sent)
    \/ Works(wait_response)
    \/ Works(stop_notify_1)
    \/ Works(stop_notify_2)
    \/ Works(get_status_parse)
    \/ Works(op_return)
    \/ Works(finish)

SpecStub == StubInit /\ [][StubNext]_vars

(* ---------------------- _kelvin_to_rgb on its own --------------------- *)

\* The temperatures _kelvin_to_rgb is called with: the samples and
\* temperatures outside [1000,40000] on both sides.
KelvinInputs == KelvinSamples \cup {-1000, 0, 1, 500, 999, 40001, 50000,
                                    100000}

\* A controller just constructed, about to call _kelvin_to_rgb(args[1]).
KelvinInit ==
    /\ platformWindows \in BOOLEAN
    /\ auto_connect \in BOOLEAN
    /\ connected = FALSE
    /\ client = None
    /\ nclients = 0
    /\ pc = "kelvin_to_rgb"
    /\ stack = <<>>
    /\ ret = "None"
    /\ op = "kelvin_to_rgb"
    /\ \E temperature \in KelvinInputs : args = <<temperature>>
    /\ pre = [connected |-> FALSE, client |-> None, nclients |-> 0]
    /\ cmd = <<>>
    /\ wc_start = 0
    /\ wc_pre = FALSE
    /\ success = TRUE
    /\ response_data = NoneBytes
    /\ received = <<>>
    /\ active_notify = {}
    /\ log = <<>>
    /\ result = <<>>
    /\ status = NoStatus
    /\ prev = None
    /\ device = NoDevice
    /\ peer = NoPeer
    /\ awaiting = None

\* return (int(red), int(green), int(blue))
call_kelvin_to_rgb ==
    /\ pc = "kelvin_to_rgb"
    /\ result' = kelvin_to_rgb(args[1])
    /\ pc' = "done"
    /\ UNCHANGED <<env, session, stack, ret, op, args, pre, status, wlocals,
                   rgbwlocals, slocals, active_notify, log>>

KelvinNext == call_kelvin_to_rgb

SpecKelvin == KelvinInit /\ [][KelvinNext]_vars

(* ------------------ the hex view and the hex setter ------------------ *)

\* The digits of a natural number in base 16, lowercase (format type x).
RECURSIVE hex_digits(_)
hex_digits(value) ==
    IF value < 16 THEN <<LowerDigits[value + 1]>>
    ELSE hex_digits(value \div 16) \o <<LowerDigits[(value % 16) + 1]>>

\* Mutation of format_02x: the width and the zero fill are left out ({:x}).
format_x(value) == hex_digits(value)

\* f"{value:02x}" of a natural number: at least two digits, zero-filled.
format_02x(value) ==
    IF Len(hex_digits(value)) < 2
    THEN <<"0">> \o hex_digits(value)
    ELSE hex_digits(value)

\* TrionesStatus.rgb_hex
rgb_hex(st) ==
    <<"#">> \o format_02x(st.red) \o format_02x(st.green)
            \o format_02x(st.blue)

\* The colour bytes of the status frames decoded: both ends, one-digit and
\* two-digit values, digits and letters.
HexBytes == {0, 10, 15, 16, 171, 255}

\* A status get_status has returned: a 12-byte frame decoded.
DecodedStatuses ==
    {parse_status_response(<<HEADER_MAGIC, 4, power, 65, 32, 1, red, green,
                             blue, white, 6, FOOTER_MAGIC>>).status :
        power \in {POWER_ON, POWER_OFF}, red \in HexBytes,
        green \in HexBytes, blue \in HexBytes, white \in {0, 255}}

\* The caller holds a decoded status; the controller is as constructed or
\* holds a session on client 1.
HexInit ==
    /\ platformWindows \in BOOLEAN
    /\ auto_connect \in BOOLEAN
    /\ connected \in BOOLEAN
    /\ client = (IF connected THEN 1 ELSE None)
    /\ nclients = (IF connected THEN 1 ELSE 0)
    /\ pc = "idle"
    /\ stack = <<>>
    /\ ret = "None"
    /\ op = "none"
    /\ args = <<>>
    /\ pre = [connected |-> FALSE, client |-> None, nclients |-> 0]
    /\ cmd = <<>>
    /\ wc_start = 0
    /\ wc_pre = FALSE
    /\ success = TRUE
    /\ response_data = NoneBytes
    /\ received = <<>>
    /\ active_notify = {}
    /\ log = <<>>
    /\ result = "pending"
    /\ status \in DecodedStatuses
    /\ prev = None
    /\ device = NoDevice
    /\ peer = NoPeer
    /\ awaiting = None

\* set_color_hex(status.rgb_hex)
call_set_color_hex_of_status ==
    /\ Begin("set_color_hex", <<rgb_hex(status)>>)
    /\ set_color_hex(rgb_hex(status))

HexNext ==
    \/ call_set_color_hex_of_status
    \/ connect_begin
    \/ connect_open
    \/ connect_cleanup
    \/ force_reconnect_begin
    \/ force_reconnect_close
    \/ ensure_connected
    \/ write_command_begin
    \/ write_command_connected
    \/ write_command_write
    \/ write_command_reconnect
    \/ write_command_reconnected
    \/ write_command_retry
    \/ op_return

SpecHex == HexInit /\ [][HexNext]_vars

(* --------------------------- TrionesScanner --------------------------- *)

\* A string is the sequence of its characters.  str.lower() on the letters.
UpperLetters == <<"A", "B", "C", "D", "E", "F", "G", "H", "I", "J", "K", "L",
                  "M", "N", "O", "P", "Q", "R", "S", "T", "U", "V", "W", "X",
                  "Y", "Z">>
LowerLetters == <<"a", "b", "c", "d", "e", "f", "g", "h", "i", "j", "k", "l",
                  "m", "n", "o", "p", "q", "r", "s", "t", "u", "v", "w", "x",
                  "y", "z">>

lower_char(c) ==
    IF \E i \in 1..26 : UpperLetters[i] = c
    THEN LowerLetters[CHOOSE i \in 1..26 : UpperLetters[i] = c]
    ELSE c

lower(text) == [i \in 1..Len(text) |-> lower_char(text[i])]

\* sub in text
contains(sub, text) ==
    \E k \in 0..(Len(text) - Len(sub)) :
        SubSeq(text, k + 1, k + Len(sub)) = sub

\* A BLEDevice: its name (named = FALSE: the name is None) and address.
BLEDevice(named, name, address) ==
    [named |-> named, name |-> name, address |-> address]

\* The devices a scan may find: two Triones lights, one more under the
\* name of the first, one with the identifier inside its name in mixed
\* case, one with a prefix of it only, another product, a device with an
\* empty name and one with none.
ScanDevices == {
    BLEDevice(TRUE, <<"T", "r", "i", "o", "n", "e", "s", "-", "A">>,
              <<"A", "A">>),
    BLEDevice(TRUE, <<"T", "R", "I", "O", "N", "E", "S", "-", "B">>,
              <<"B", "B">>),
    BLEDevice(TRUE, <<"T", "r", "i", "o", "n", "e", "s", "-", "A">>,
              <<"E", "E">>),
    BLEDevice(TRUE, <<"x", "T", "r", "I", "o", "N", "e", "S", "x">>,
              <<"c", "c">>),
    BLEDevice(TRUE, <<"T", "r", "i", "o", "n", "e">>, <<"B", "B">>),
    BLEDevice(TRUE, <<"L", "E", "D", "B", "L", "E">>, <<"C", "C">>),
    BLEDevice(TRUE, <<>>, <<"D", "D">>),
    BLEDevice(FALSE, <<>>, <<"A", "A">>) }

RECURSIVE ListsUpTo(_, _)
ListsUpTo(elements, n) ==
    IF n = 0 THEN {<<>>}
    ELSE LET shorter == ListsUpTo(elements, n - 1)
         IN  shorter \cup {Append(l, e) : l \in shorter, e \in elements}

\* What BleakScanner.discover() may return.
ScanResults == ListsUpTo(ScanDevices, MaxDevices)

\* device_names: None (given = FALSE) or a list of names.
NameFilter(given, names) == [given |-> given, names |-> names]

NameArgs == {
    <<"T", "r", "i", "o", "n", "e", "s", "-", "A">>,
    <<"t", "r", "i", "o", "n", "e", "s", "-", "a">>,
    <<"x", "T", "r", "I", "o", "N", "e", "S", "x">>,
    <<"L", "E", "D", "B", "L", "E">> }

FilterArgs ==
    {NameFilter(FALSE, <<>>), NameFilter(TRUE, <<>>)}
    \cup {NameFilter(TRUE, <<name>>) : name \in NameArgs}
    \cup {NameFilter(TRUE, <<<<"T", "r", "i", "o", "n", "e", "s", "-", "A">>,
                             <<"x", "T", "r", "I", "o", "N", "e", "S", "x">> >>)}

AddressArgs == {<<"A", "A">>, <<"a", "a">>, <<"B", "b">>, <<"c", "c">>,
                <<"C", "C">>, <<"Z", "Z">>}

\* TrionesController(device): __init__ with auto_connect = True.
NewController(dev) ==
    [device |-> dev, auto_connect |-> TRUE, client |-> None,
     connected |-> FALSE]

\* Mutation of IsTriones: the name is not lowered.
IsTriones_case_sensitive(dev) ==
    /\ dev.named /\ dev.name # <<>>
    /\ contains(<<"t", "r", "i", "o", "n", "e", "s">>, dev.name)

\* if dev.name: if "triones" in dev.name.lower():
IsTriones(dev) ==
    /\ dev.named /\ dev.name # <<>>
    /\ contains(<<"t", "r", "i", "o", "n", "e", "s">>, lower(dev.name))

\* The loop of discover over the devices found.
RECURSIVE discover(_, _)
discover(devices, device_names) ==
    IF devices = <<>> THEN <<>>
    ELSE LET d == Head(devices)
             keep == /\ IsTriones(d)
                     /\ \/ ~device_names.given
                        \/ \E i \in 1..Len(device_names.names) :
                              device_names.names[i] = d.name
         IN  (IF keep THEN <<NewController(d)>> ELSE <<>>)
             \o discover(Tail(devices), device_names)

\* Optional[TrionesController]: None is found = FALSE.
NoController == [found |-> FALSE, controller |-> NewController(
                    BLEDevice(FALSE, <<>>, <<>>))]
Found(controller) == [found |-> TRUE, controller |-> controller]

\* Mutation of find_by_address: the addresses are compared as they are.
RECURSIVE find_by_address_exact(_, _)
find_by_address_exact(devices, address) ==
    IF devices = <<>> THEN NoController
    ELSE LET d == Head(devices)
         IN  IF d.address = address /\ IsTriones(d)
             THEN Found(NewController(d))
             ELSE find_by_address_exact(Tail(devices), address)

\* The loop of find_by_address.
RECURSIVE find_by_address(_, _)
find_by_address(devices, address) ==
    IF devices = <<>> THEN NoController
    ELSE LET d == Head(devices)
         IN  IF lower(d.address) = lower(address) /\ IsTriones(d)
             THEN Found(NewController(d))
             ELSE find_by_address(Tail(devices), address)

\* A call of a static method of TrionesScanner, up to its await of
\* BleakScanner.discover.
ScannerBegin(name, arguments, label) ==
    /\ pc = "idle"
    /\ op' = name
    /\ args' = arguments
    /\ pc' = label
    /\ UNCHANGED <<env, session, stack, ret, pre, result, status, wlocals,
                   rgbwlocals, slocals, active_notify, log>>

call_discover ==
    \E device_names \in FilterArgs :
        ScannerBegin("discover", <<device_names>>, "scanner_discover")

\* find_by_name: discover(device_names=[name])
call_find_by_name ==
    \E name \in NameArgs :
        ScannerBegin("find_by_name", <<name>>, "scanner_discover")

call_find_by_address ==
    \E address \in AddressArgs :
        ScannerBegin("find_by_address", <<address>>, "scanner_find")

\* devices = await BleakScanner.discover(timeout=timeout) returns or
\* raises, then the loop; find_by_name takes the first controller or None.
scanner_discover ==
    /\ pc = "scanner_discover"
    /\ \/ /\ log' = Append(log, Ev("discover", None, "error", <<>>))
          /\ result' = "TransportError"
       \/ \E devices \in ScanResults :
             /\ log' = Append(log, Ev("discover", None, "ok", devices))
             /\ result' =
                   IF op = "find_by_name"
                   THEN LET controllers ==
                                discover(devices,
                                         NameFilter(TRUE, <<args[1]>>))
                        IN  IF controllers # <<>>
                            THEN Found(controllers[1])
                            ELSE NoController
                   ELSE discover(devices, args[1])
    /\ pc' = "done"
    /\ UNCHANGED <<env, session, stack, ret, op, args, pre, status, wlocals,
                   rgbwlocals, slocals, active_notify>>

scanner_find ==
    /\ pc = "scanner_find"
    /\ \/ /\ log' = Append(log, Ev("discover", None, "error", <<>>))
          /\ result' = "TransportError"
       \/ \E devices \in ScanResults :
             /\ log' = Append(log, Ev("discover", None, "ok", devices))
             /\ result' = find_by_address(devices, args[1])
    /\ pc' = "done"
    /\ UNCHANGED <<env, session, stack, ret, op, args, pre, status, wlocals,
                   rgbwlocals, slocals, active_notify>>

ScanNext ==
    \/ call_discover
    \/ call_find_by_name
    \/ call_find_by_address
    \/ scanner_discover
    \/ scanner_find
    \/ finish

SpecScan == Init /\ [][ScanNext]_vars

(* ------------------- the decoder on arbitrary bytes ------------------- *)

\* The byte strings the decoder is tried on: every 12-byte string whose
\* bytes are drawn from the sets below (the magic bytes, their neighbours,
\* each other's value; both power bytes and another; two modes; both ends
\* of a byte elsewhere), those strings cut to 11 bytes or grown to 13, and
\* the strings of 0 and 1 bytes.
HeaderBytes == {102, 101, 153, 0}
FooterBytes == {153, 152, 102}
PowerBytes == {35, 36, 0}
ModeBytes == {37, 65}
SpeedBytes == {1, 255}
OtherBytes == {0, 255}

Frames12 ==
    {<<b0, b1, b2, b3, b4, b5, b6, b7, b8, b9, b10, b11>> :
        b0 \in HeaderBytes, b1 \in OtherBytes, b2 \in PowerBytes,
        b3 \in ModeBytes, b4 \in OtherBytes, b5 \in SpeedBytes,
        b6 \in OtherBytes, b7 \in OtherBytes, b8 \in OtherBytes,
        b9 \in OtherBytes, b10 \in OtherBytes, b11 \in FooterBytes}

DecodeInputs ==
    Frames12
    \cup {SubSeq(f, 1, 11) : f \in {g \in Frames12 : g[11] = 255}}
    \cup {<<102>> \o SubSeq(f, 3, 12) :
              f \in {g \in Frames12 : g[1] = 102 /\ g[12] = 153}}
    \cup {Append(f, 153) : f \in {g \in Frames12 : g[1] = 102}}
    \cup {<<>>, <<102>>, <<153>>}

\* get_status at the return of _get_status_response on a connected
\* controller: both subscriptions were started and stopped, the request was
\* written, and one notification or none came.
DecodeInit ==
    /\ platformWindows \in BOOLEAN
    /\ auto_connect \in BOOLEAN
    /\ connected = TRUE
    /\ client = 1
    /\ nclients = 1
    /\ pc = "get_status_parse"
    /\ stack = <<>>
    /\ op = "get_status"
    /\ args = <<>>
    /\ pre = [connected |-> TRUE, client |-> 1, nclients |-> 1]
    /\ cmd = StatusRequestFrame
    /\ wc_start = 2
    /\ wc_pre = TRUE
    /\ success = TRUE
    /\ \/ /\ response_data \in DecodeInputs
          /\ received = <<response_data>>
          /\ ret = "bytes"
       \/ /\ response_data = NoneBytes
          /\ received = <<>>
          /\ ret = "None"
    /\ active_notify = {}
    /\ log = << Ev("start_notify", 1, "ok", <<NOTIFY_CHARACTERISTIC_1>>),
                Ev("start_notify", 1, "ok", <<NOTIFY_CHARACTERISTIC_2>>),
                Ev("write", 1, "ok", StatusRequestFrame),
                Ev("stop_notify", 1, "ok", <<NOTIFY_CHARACTERISTIC_1>>),
                Ev("stop_notify", 1, "ok", <<NOTIFY_CHARACTERISTIC_2>>) >>
    /\ result = "pending"
    /\ status = NoStatus
    /\ prev = None
    /\ device = NoDevice
    /\ peer = NoPeer
    /\ awaiting = None

DecodeNext == get_status_parse

SpecDecode == DecodeInit /\ [][DecodeNext]_vars

(* ------------------------- reading the log ---------------------------- *)

IsWrite(e) == e.ev = "write"
IsOpen(e) == e.ev = "open"

Writes(events) == SelectSeq(events, IsWrite)
Opens(events) == SelectSeq(events, IsOpen)

\* The transport calls since _write_command was called.
CallLog == SubSeq(log, wc_start + 1, Len(log))

\* What follows the first write in a sequence of transport calls.
RECURSIVE AfterFirstWrite(_)
AfterFirstWrite(events) ==
    IF events = <<>> THEN <<>>
    ELSE IF Head(events).ev = "write" THEN Tail(events)
    ELSE AfterFirstWrite(Tail(events))

WriteCommandLabels == {"write_command", "write_command_connected",
                       "write_command_write", "write_command_reconnect",
                       "write_command_reconnected", "write_command_retry"}

\* _write_command is running: the coroutine is in it or in one it awaits.
InWriteCommand ==
    \/ pc \in WriteCommandLabels
    \/ \E i \in 1..Len(stack) : stack[i] \in WriteCommandLabels

\* _write_command has just returned ret to its caller.
WriteCommandReturned ==
    \/ pc \in {"set_rgbw_rgb_sent", "set_rgbw_white_sent",
               "status_request_sent"}
    \/ pc = "op_return" /\ op \notin {"connect", "disconnect"}

PreConnected == pre.connected /\ pre.client # None

SemanticOps == {"power_on", "power_off", "set_rgb", "set_white", "set_rgbw",
                "set_color_hex", "set_temperature", "set_built_in_mode",
                "get_status"}

\* The operations that are one _write_command of one frame.
OneFrameOps == SemanticOps \ {"set_rgbw", "get_status"}

(* ------------------------------- claims ------------------------------- *)

\* C1: one call of _write_command makes at most two transmit attempts and
\* at most one reconnect; once the second attempt is made the call is over,
\* and when that attempt failed it returned False.
C1_BoundedResend ==
    LET w == Writes(CallLog)
    IN  /\ InWriteCommand => Len(w) <= 1
        /\ (InWriteCommand \/ WriteCommandReturned) =>
              /\ Len(w) <= 2
              /\ Len(Opens(AfterFirstWrite(CallLog))) <= 1
        /\ (WriteCommandReturned /\ Len(w) = 2 /\ w[2].res # "ok") =>
              ret = "False"

C1_Witness ==
    /\ WriteCommandReturned
    /\ Len(Writes(CallLog)) = 2
    /\ Writes(CallLog)[2].res # "ok"
    /\ ret = "False"

\* C2: when the first write raised a "not connected" error and the
\* reconnect and the resend that followed both succeeded, _write_command
\* returns True, the transport saw exactly two writes, both of the command,
\* and an operation that is this one write reports True.
C2_ResendSucceeds ==
    LET w == Writes(CallLog)
        resent == /\ Len(w) >= 2
                  /\ w[1].res = "not_connected"
                  /\ \E i \in 1..Len(CallLog) :
                        /\ CallLog[i].ev = "open"
                        /\ CallLog[i].res = "ok"
                        /\ \E j \in 1..(i - 1) : CallLog[j].ev = "write"
                  /\ w[2].res = "ok"
    IN  /\ (WriteCommandReturned /\ resent) =>
              /\ ret = "True"
              /\ Len(w) = 2
              /\ w[1].data = cmd /\ w[2].data = cmd
        /\ (pc = "done" /\ op \in OneFrameOps /\ resent) => result = "True"

C2_Witness ==
    /\ pc = "done"
    /\ op = "power_on"
    /\ result = "True"
    /\ Len(Writes(log)) = 2
    /\ Writes(log)[1].res = "not_connected"
    /\ Writes(log)[2].res = "ok"

\* C3: a call of _write_command that returns False after a transmit attempt
\* failed leaves is_connected false.
C3_FailedWriteDisconnects ==
    LET w == Writes(CallLog)
    IN  (/\ WriteCommandReturned
         /\ ret = "False"
         /\ w # <<>>
         /\ w[Len(w)].res # "ok") => ~is_connected

\* C4: connect() on a disconnected controller opens the transport exactly
\* once; it returns True exactly when the session is connected afterwards;
\* when the open raised it returns False, is_connected is false and no
\* client is held.
C4_ConnectOnce ==
    (pc = "done" /\ op = "connect" /\ ~PreConnected) =>
        /\ Len(Opens(log)) = 1
        /\ result \in {"True", "False"}
        /\ (result = "True") <=> is_connected
        /\ (Opens(log)[1].res # "ok") =>
              (result = "False" /\ ~connected /\ client = None)

C4_Witness ==
    /\ pc = "done"
    /\ op = "connect"
    /\ ~PreConnected
    /\ Opens(log)[1].res = "error"
    /\ result = "False"

\* C5: on a disconnected controller with auto_connect off, a semantic
\* command with valid arguments makes no transport call, leaves the
\* controller disconnected and reports False (None for get_status).
C5_NoAutoConnect ==
    (op \in SemanticOps /\ ~PreConnected /\ ~auto_connect) =>
        /\ log = <<>>
        /\ ~is_connected
        /\ nclients = pre.nclients
        /\ (pc = "done" /\ result # "ValueError") =>
              result = (IF op = "get_status" THEN "None" ELSE "False")

C5_Witness ==
    /\ pc = "done"
    /\ op = "set_rgbw"
    /\ args = <<255, 0, 0, 255>>
    /\ ~PreConnected
    /\ ~auto_connect
    /\ result = "False"

\* C6: a _write_command called on a disconnected controller with
\* auto_connect on calls the transport's open first, once before any write;
\* it writes only after that open succeeded; when that open failed it
\* writes nothing and returns False.
C6_ConnectBeforeWrite ==
    ((InWriteCommand \/ WriteCommandReturned) /\ ~wc_pre /\ auto_connect) =>
        /\ CallLog # <<>> => CallLog[1].ev = "open"
        /\ Writes(CallLog) # <<>> => CallLog[1].res = "ok"
        /\ (Len(CallLog) >= 2 /\ CallLog[1].res = "ok") =>
              CallLog[2].ev = "write"
        /\ (CallLog # <<>> /\ CallLog[1].res # "ok") =>
              /\ Writes(CallLog) = <<>>
              /\ WriteCommandReturned => ret = "False"

C6_Witness ==
    /\ WriteCommandReturned
    /\ ~wc_pre
    /\ auto_connect
    /\ CallLog # <<>>
    /\ CallLog[1].ev = "open"
    /\ CallLog[1].res = "error"
    /\ ret = "False"

\* C7: after disconnect() is_connected is false and no client is held, also
\* when the transport's disconnect raised; on a controller that is not
\* connected it calls nothing and changes nothing.
C7_DisconnectIdempotent ==
    (pc = "done" /\ op = "disconnect") =>
        /\ ~connected
        /\ client = None
        /\ result = "None"
        /\ Len(log) <= 1
        /\ ~PreConnected =>
              /\ log = <<>>
              /\ connected = pre.connected
              /\ client = pre.client

C7_Witness ==
    /\ pc = "done"
    /\ op = "disconnect"
    /\ PreConnected
    /\ log # <<>>
    /\ log[1].ev = "close"
    /\ log[1].res = "error"

\* The arguments the range checks are there to refuse.
OutOfRange ==
    \/ op \in {"set_rgb", "set_white", "set_rgbw"}
          /\ \E i \in 1..Len(args) : args[i] < 0 \/ args[i] > 255
    \/ op = "set_built_in_mode"
          /\ \/ args[1][1] = "int" /\ args[1][2] \notin (37..56) \cup {65}
             \/ args[2] \notin 1..255
    \/ op = "set_temperature"
          /\ \/ args[1] < 1000 \/ args[1] > 40000
             \/ args[2] < 0 \/ args[2] > 100

\* An optional "#" and six hex digits.
WellFormedHex(text) ==
    LET digits == IF text # <<>> /\ Head(text) = "#" THEN Tail(text) ELSE text
    IN  /\ Len(digits) = 6
        /\ \A i \in 1..6 : IsHexDigit(digits[i])

\* C8: a call that input validation rejects raises before any transport
\* activity: nothing was called on the transport, no client was created
\* and the session is as it was; arguments out of range are rejected, and a
\* well-formed hex string never is.
C8_RejectedBeforeTransport ==
    /\ result = "ValueError" =>
          /\ log = <<>>
          /\ nclients = pre.nclients
          /\ connected = pre.connected
          /\ client = pre.client
          /\ OutOfRange \/ (op = "set_color_hex" /\ ~WellFormedHex(args[1]))
    /\ (pc = "done" /\ OutOfRange) => result = "ValueError"

C8_Witness ==
    /\ pc = "done"
    /\ op = "set_rgbw"
    /\ args = <<255, 0, 0, 256>>
    /\ ~PreConnected
    /\ auto_connect
    /\ result = "ValueError"

RgbwFrames(red, green, blue, white) ==
    IF red = 0 /\ green = 0 /\ blue = 0 /\ white = 0
    THEN << <<86, 0, 0, 0, 0, 240, 170>> >>
    ELSE (IF red > 0 \/ green > 0 \/ blue > 0
          THEN << <<86, red, green, blue, 0, 240, 170>> >>
          ELSE <<>>)
         \o (IF white > 0
             THEN << <<86, 0, 0, 0, white, 15, 170>> >>
             ELSE <<>>)

WrittenFrames == [i \in 1..Len(Writes(log)) |-> Writes(log)[i].data]

\* C10: set_rgbw with components in [0,255] on a transport whose calls all
\* succeed writes the all-off frame alone when all four are zero, otherwise
\* the RGB frame if a colour is set and then the white frame if white > 0:
\* one or two frames, never white before RGB; and it returns True.
C10_RgbwFrames ==
    (/\ pc = "done"
     /\ op = "set_rgbw"
     /\ \A i \in 1..4 : args[i] \in 0..255
     /\ log # <<>>
     /\ ~Failed(log)) =>
        /\ WrittenFrames = RgbwFrames(args[1], args[2], args[3], args[4])
        /\ Len(WrittenFrames) \in {1, 2}
        /\ result = "True"

C10_Witness ==
    /\ pc = "done"
    /\ op = "set_rgbw"
    /\ args = <<255, 0, 0, 255>>
    /\ WrittenFrames = << <<86, 255, 0, 0, 0, 240, 170>>,
                          <<86, 0, 0, 0, 255, 15, 170>> >>
    /\ result = "True"

\* C11: set_rgbw short-circuits on the first failure: with a colour set and
\* white > 0, the white frame is transmitted only after a write of the RGB
\* frame was accepted.
C11_ShortCircuit ==
    (/\ op = "set_rgbw"
     /\ \A i \in 1..4 : args[i] \in 0..255
     /\ args[1] > 0 \/ args[2] > 0 \/ args[3] > 0
     /\ args[4] > 0) =>
        \A i \in 1..Len(log) :
            (log[i].ev = "write"
             /\ log[i].data = <<86, 0, 0, 0, args[4], 15, 170>>) =>
                \E j \in 1..(i - 1) :
                    /\ log[j].ev = "write"
                    /\ log[j].data = <<86, args[1], args[2], args[3],
                                       0, 240, 170>>
                    /\ log[j].res = "ok"

\* A write of this frame was accepted by the transport.
Accepted(data) ==
    \E i \in 1..Len(log) :
        log[i].ev = "write" /\ log[i].data = data /\ log[i].res = "ok"

\* C12: set_rgbw returns True only if every frame it had to send was
\* accepted by the transport; when a frame it had to send was not accepted
\* it returns False, whatever became of the other frame.
C12_RgbwAllAccepted ==
    (/\ pc = "done"
     /\ op = "set_rgbw"
     /\ \A i \in 1..4 : args[i] \in 0..255) =>
        LET frames == RgbwFrames(args[1], args[2], args[3], args[4])
            all == \A k \in 1..Len(frames) : Accepted(frames[k])
        IN  /\ result \in {"True", "False"}
            /\ (result = "True") <=> all

C12_Witness ==
    /\ pc = "done"
    /\ op = "set_rgbw"
    /\ args = <<255, 0, 0, 255>>
    /\ Len(Writes(log)) = 2
    /\ Writes(log)[1].res = "error"
    /\ Writes(log)[2].res = "ok"
    /\ Writes(log)[2].data = <<86, 0, 0, 0, 255, 15, 170>>
    /\ result = "False"

\* _get_status_response has returned to get_status, or get_status to its
\* caller.
StatusRequestReturned ==
    op = "get_status" /\ pc \in {"get_status_parse", "done"}

\* C13: when a status request returns (with data, with none, after a failed
\* send or a reconnect), no subscription it opened is still active on any
\* channel of any transport client.
C13_NoSubscriptionLeft ==
    StatusRequestReturned => active_notify = {}

\* C14: when several notifications arrive during one status request, the
\* bytes it returns are those of the first one received.
C14_FirstNotificationWins ==
    (StatusRequestReturned /\ received # <<>>) =>
        /\ ret = "bytes"
        /\ response_data = received[1]

\* C15: on a connected controller whose status request is written and
\* answered by no notification, get_status returns None and leaves the
\* session connected on the same client; the command after it is written
\* on that client, with no connect before it.
C15_TimeoutKeepsSession ==
    /\ (/\ pc = "done"
        /\ op = "get_status"
        /\ PreConnected
        /\ received = <<>>
        /\ Writes(log) # <<>>
        /\ Writes(log)[1].res = "ok") =>
            /\ result = "None"
            /\ is_connected
            /\ client = pre.client
            /\ nclients = pre.nclients
            /\ TimedOutOn = client
    /\ (prev # None /\ op # "none") =>
            /\ PreConnected
            /\ pre.client = prev
            /\ \A i \in 1..Len(log) :
                  (log[i].ev = "write" /\ Writes(SubSeq(log, 1, i - 1)) = <<>>)
                      => /\ log[i].cl = prev
                         /\ Opens(SubSeq(log, 1, i - 1)) = <<>>
            /\ (pc = "done" /\ op \in OneFrameOps /\ result # "ValueError") =>
                  /\ log # <<>>
                  /\ log[1] = Ev("write", prev, log[1].res, cmd)

C15_Witness ==
    /\ prev # None
    /\ pc = "done"
    /\ op = "set_rgb"
    /\ result = "True"
    /\ log = << Ev("write", prev, "ok", <<86, 255, 0, 1, 0, 240, 170>>) >>

\* C16: the status decoder rejects exactly the inputs whose length is not
\* 12, or whose byte 0 is not 0x66, or whose byte 11 is not 0x99: it gives
\* no status, not a partly filled one, and does not raise; get_status then
\* returns None and the session is as it was.
C16_DecoderRejects ==
    /\ (pc = "done" /\ op = "get_status" /\ ret = "bytes") =>
            LET rejected == \/ Len(response_data) # 12
                            \/ response_data[1] # 102
                            \/ response_data[12] # 153
            IN  /\ result \in {"None", "Status"}
                /\ (result = "None") <=> rejected
                /\ rejected => status = NoStatus
                /\ connected = pre.connected
                /\ client = pre.client
                /\ nclients = pre.nclients
    /\ (pc = "done" /\ op = "get_status" /\ ret = "None") =>
            result = "None" /\ status = NoStatus

C16_Witness ==
    /\ pc = "done"
    /\ response_data = <<102, 255, 35, 65, 255, 1, 0, 255, 0, 0, 255, 152>>
    /\ result = "None"
    /\ status = NoStatus
    /\ is_connected

\* C17: for a 12-byte frame between 0x66 and 0x99 the decoded status has
\* is_on = (byte 2 = 0x23), mode = byte 3, speed = byte 5, red, green, blue,
\* white = bytes 6, 7, 8, 9 and the input as raw_response; bytes 1, 4 and 10
\* enter no other field.
C17_DecodedFields ==
    (/\ pc = "done"
     /\ op = "get_status"
     /\ ret = "bytes"
     /\ Len(response_data) = 12
     /\ response_data[1] = 102
     /\ response_data[12] = 153) =>
        /\ result = "Status"
        /\ status = [is_on |-> (response_data[3] = 35),
                     mode |-> response_data[4],
                     speed |-> response_data[6],
                     red |-> response_data[7],
                     green |-> response_data[8],
                     blue |-> response_data[9],
                     white |-> response_data[10],
                     raw_response |-> response_data]

C17_Witness ==
    /\ pc = "done"
    /\ response_data = <<102, 255, 36, 37, 255, 1, 0, 255, 0, 255, 255, 153>>
    /\ result = "Status"
    /\ ~status.is_on
    /\ status.speed = 1
    /\ status.red = 0
    /\ status.white = 255

\* C18: with a light that answers each status request with a 12-byte frame
\* holding the colour of the last RGB frame written to it and its power
\* state, set_rgb(r, g, b) leaves the light with the colour (r, g, b), and
\* a get_status after it returns a status whose rgb_tuple is that colour and
\* whose is_on is the light's power state.
C18_StatusEchoesSetRgb ==
    /\ (pc = "done" /\ op = "set_rgb" /\ result = "True" /\ DeviceUpToDate) =>
            device.rgb = args
    /\ (pc = "done" /\ op = "get_status" /\ (PreConnected \/ auto_connect)) =>
            /\ result = "Status"
            /\ status.is_on = device.on
            /\ device.rgb # <<>> => rgb_tuple(status) = device.rgb

C18_Witness ==
    /\ pc = "done"
    /\ op = "get_status"
    /\ PreConnected
    /\ device = [on |-> TRUE, rgb |-> <<0, 255, 1>>]
    /\ result = "Status"
    /\ rgb_tuple(status) = <<0, 255, 1>>
    /\ status.is_on

\* The mode bytes the claim gives.
ModeBytesAccepted == (37..56) \cup {65}

\* C20: set_built_in_mode accepts exactly the modes 0x25..0x38 and 0x41,
\* given as an int or as one of the 21 members of TrionesMode (whose values
\* are those 21 bytes), with a speed in [1,255]; it then sends
\* [0xBB, mode, speed, 0x44] and nothing else; every other mode or speed
\* raises ValueError.
C20_ModeAccepted ==
    (pc = "done" /\ op = "set_built_in_mode") =>
        LET mode == args[1]
            speed == args[2]
            accepted == /\ mode[1] = "member" \/ mode[2] \in ModeBytesAccepted
                        /\ speed \in 1..255
            byte == mode_value(mode)
        IN  /\ Len(TrionesMode) = 21
            /\ {TrionesMode[i] : i \in 1..21} = ModeBytesAccepted
            /\ (result = "ValueError") <=> ~accepted
            /\ accepted =>
                  /\ result \in {"True", "False"}
                  /\ byte \in ModeBytesAccepted
                  /\ mode[1] = "int" => byte = mode[2]
                  /\ \A i \in 1..Len(log) : log[i].ev = "write" =>
                        log[i].data = <<187, byte, speed, 68>>
                  /\ PreConnected =>
                        log # <<>> /\ log[1].ev = "write"
                  /\ result = "True" => Accepted(<<187, byte, speed, 68>>)

C20_Witness ==
    /\ pc = "done"
    /\ op = "set_built_in_mode"
    /\ args = << <<"member", 1>>, 255 >>
    /\ PreConnected
    /\ log = << Ev("write", client, "ok", <<187, 65, 255, 68>>) >>
    /\ result = "True"

\* The six command-frame shapes.
IsPowerShape(data) == data \in {<<204, 35, 51>>, <<204, 36, 51>>}
IsRgbShape(data) ==
    /\ Len(data) = 7
    /\ data[1] = 86
    /\ \A i \in 2..4 : data[i] \in 0..255
    /\ data[5] = 0 /\ data[6] = 240 /\ data[7] = 170
IsWhiteShape(data) ==
    /\ Len(data) = 7
    /\ data[1] = 86
    /\ data[2] = 0 /\ data[3] = 0 /\ data[4] = 0
    /\ data[5] \in 0..255
    /\ data[6] = 15 /\ data[7] = 170
IsOffShape(data) == data = <<86, 0, 0, 0, 0, 240, 170>>
IsModeShape(data) ==
    /\ Len(data) = 4
    /\ data[1] = 187
    /\ data[2] \in (37..56) \cup {65}
    /\ data[3] \in 1..255
    /\ data[4] = 68
IsStatusRequestShape(data) == data = <<239, 1, 119>>

\* The frame is of a shape the operation sends.
ShapeOfOperation(name, arguments, data) ==
    CASE name = "power_on" -> data = <<204, 35, 51>>
      [] name = "power_off" -> data = <<204, 36, 51>>
      [] name = "set_rgb" ->
            IsRgbShape(data)
            /\ <<data[2], data[3], data[4]>> = arguments
      [] name = "set_color_hex" -> IsRgbShape(data)
      [] name = "set_white" ->
            IsWhiteShape(data) /\ <<data[5]>> = arguments
      [] name = "set_temperature" -> IsRgbShape(data) \/ IsWhiteShape(data)
      [] name = "set_rgbw" ->
            \/ IsOffShape(data) /\ arguments = <<0, 0, 0, 0>>
            \/ IsRgbShape(data)
               /\ <<data[2], data[3], data[4]>> = SubSeq(arguments, 1, 3)
               /\ arguments[1] + arguments[2] + arguments[3] > 0
            \/ IsWhiteShape(data)
               /\ data[5] = arguments[4] /\ arguments[4] > 0
      [] name = "set_built_in_mode" ->
            IsModeShape(data) /\ data[3] = arguments[2]
      [] name = "get_status" -> IsStatusRequestShape(data)
      [] OTHER -> FALSE

\* C19: whatever semantic operations were called before, every byte string
\* an operation writes to the write characteristic is one of the six
\* command-frame shapes, and the shape of the operation that wrote it.
C19_SixFrameShapes ==
    \A i \in 1..Len(log) :
        log[i].ev = "write" =>
            /\ \/ IsPowerShape(log[i].data)
               \/ IsRgbShape(log[i].data)
               \/ IsWhiteShape(log[i].data)
               \/ IsOffShape(log[i].data)
               \/ IsModeShape(log[i].data)
               \/ IsStatusRequestShape(log[i].data)
            /\ ShapeOfOperation(op, args, log[i].data)

C19_Witness ==
    /\ pc = "done"
    /\ op = "set_temperature"
    /\ args = <<6500, 50, TRUE>>
    /\ log # <<>>
    /\ log[Len(log)].ev = "write"
    /\ IsWhiteShape(log[Len(log)].data)
    /\ log[Len(log)].data[5] = 127

\* C21: set_color_hex transmits an RGB frame if and only if its argument is
\* an optional leading "#" and exactly six hexadecimal digits, the frame
\* then carrying the values of the three digit pairs; every other string
\* raises ValueError and nothing is transmitted.
C21_HexAcceptedIffWellFormed ==
    (pc = "done" /\ op = "set_color_hex") =>
        /\ (result = "ValueError") <=> ~WellFormedHex(args[1])
        /\ ~WellFormedHex(args[1]) => log = <<>>
        /\ \A i \in 1..Len(log) :
              (log[i].ev = "write" /\ WellFormedHex(args[1])) =>
              LET digits == IF Head(args[1]) = "#" THEN Tail(args[1])
                            ELSE args[1]
              IN  log[i].data =
                      <<86,
                        16 * DigitValue(digits[1]) + DigitValue(digits[2]),
                        16 * DigitValue(digits[3]) + DigitValue(digits[4]),
                        16 * DigitValue(digits[5]) + DigitValue(digits[6]),
                        0, 240, 170>>

\* set_temperature was called with a temperature in [1000,40000] and a
\* brightness in [0,1] and has returned.
TemperatureDone ==
    /\ pc = "done"
    /\ op = "set_temperature"
    /\ args[1] \in 1000..40000
    /\ args[2] \in 0..100

\* The claim's white condition for the call: white LEDs wanted, 4000 K or
\* more, and min/max of the Kelvin colour above 0.8 (1.0 when max is 0).
WhiteSelected ==
    LET rgb == kelvin_to_rgb(args[1])
        lo == Min2(rgb[1], Min2(rgb[2], rgb[3]))
        hi == Max2(rgb[1], Max2(rgb[2], rgb[3]))
    IN  /\ args[3]
        /\ args[1] >= 4000
        /\ hi = 0 \/ 10 * lo > 8 * hi

\* C22: set_temperature with valid arguments transmits one frame, never an
\* RGB and a white one: a white frame exactly when use_white_leds,
\* temperature >= 4000 and min/max of the Kelvin colour > 0.8; else an RGB
\* frame, its channels boosted by 1.2 (capped at 1.0) only when
\* use_white_leds is false or temperature < 4000.
C22_TemperatureOneFrame ==
    TemperatureDone =>
        LET rgb == kelvin_to_rgb(args[1])
            b == args[2]
            boost == IF 12 * b > 1000 THEN 1000 ELSE 12 * b
            capped(x) == IF x > 255 THEN 255 ELSE x
            sent ==
                IF WhiteSelected
                THEN <<86, 0, 0, 0, Writes(log)[1].data[5], 15, 170>>
                ELSE IF args[3] /\ args[1] >= 4000
                THEN <<86, (rgb[1] * b) \div 100, (rgb[2] * b) \div 100,
                       (rgb[3] * b) \div 100, 0, 240, 170>>
                ELSE <<86, capped((rgb[1] * boost) \div 1000),
                       capped((rgb[2] * boost) \div 1000),
                       capped((rgb[3] * boost) \div 1000), 0, 240, 170>>
        IN  /\ result \in {"True", "False"}
            /\ \A i \in 1..Len(log) : log[i].ev = "write" =>
                  log[i].data = sent
            /\ (log # <<>> /\ ~Failed(log)) => Len(Writes(log)) = 1
            /\ result = "True" => Writes(log) # <<>>

C22_Witness ==
    /\ TemperatureDone
    /\ args = <<4000, 50, TRUE>>
    /\ ~WhiteSelected
    /\ result = "True"
    /\ Len(Writes(log)) = 1
    /\ Writes(log)[1].data = <<86, 127, 102, 83, 0, 240, 170>>

\* C23: when set_temperature selects the white channel the intensity sent
\* is 255 * brightness rounded to nearest; when it selects RGB in the
\* white-LED branch each channel is channel * brightness truncated.
C23_WhiteIntensityRounded ==
    TemperatureDone =>
        LET rgb == kelvin_to_rgb(args[1])
            b == args[2]
        IN  \A i \in 1..Len(log) : log[i].ev = "write" =>
                IF WhiteSelected
                THEN log[i].data[5] = (255 * b + 50) \div 100
                ELSE (args[3] /\ args[1] >= 4000) =>
                        /\ log[i].data[2] = (rgb[1] * b) \div 100
                        /\ log[i].data[3] = (rgb[2] * b) \div 100
                        /\ log[i].data[4] = (rgb[3] * b) \div 100

\* C24: _kelvin_to_rgb clamps the temperature to [1000,40000] and returns
\* three integers in [0,255], with red = 255 when the clamped temperature
\* is <= 6600, blue = 255 when it is >= 6600 and blue = 0 when it is
\* <= 1900; 1000 K gives red 255 and blue 0, 40000 K gives blue 255 and
\* red < green; a temperature outside the range gives what its nearest
\* bound gives.
C24_KelvinToRgb ==
    (pc = "done" /\ op = "kelvin_to_rgb") =>
        LET t == args[1]
            clamped == IF t < 1000 THEN 1000 ELSE IF t > 40000 THEN 40000
                       ELSE t
        IN  /\ Len(result) = 3
            /\ \A i \in 1..3 : result[i] \in 0..255
            /\ clamped <= 6600 => result[1] = 255
            /\ clamped >= 6600 => result[3] = 255
            /\ clamped <= 1900 => result[3] = 0
            /\ t <= 1000 => (result[1] = 255 /\ result[3] = 0)
            /\ t >= 40000 => (result[3] = 255 /\ result[1] < result[2])
            /\ t < 1000 => result = <<255, 67, 0>>
            /\ t > 40000 => result = <<151, 185, 255>>

C24_Witness ==
    /\ pc = "done"
    /\ op = "kelvin_to_rgb"
    /\ args = <<6601>>
    /\ result = <<255, 251, 255>>


\* The last transport event of the operation is a scan that returned.
ScanReturned ==
    /\ pc = "done"
    /\ log # <<>>
    /\ log[Len(log)].ev = "discover"
    /\ log[Len(log)].res = "ok"

Scanned == log[Len(log)].data

\* The name holds the letters t-r-i-o-n-e-s in a row, each in either case.
NamesTriones(name) ==
    \E k \in 0..(Len(name) - 7) :
        \A j \in 1..7 :
            name[k + j] \in {<<"t", "r", "i", "o", "n", "e", "s">>[j],
                             <<"T", "R", "I", "O", "N", "E", "S">>[j]}

Unconnected(controller) ==
    /\ ~controller.connected
    /\ controller.client = None

\* C25: discover returns one controller for exactly the devices found whose
\* name contains "triones" in any case and, when names are given, equals one
\* of them exactly; the controllers are in the order of the scan and none
\* is connected; a device without a name or with another name gives none.
C25_DiscoverFilters ==
    (ScanReturned /\ op = "discover") =>
        LET device_names == args[1]
            Wanted(d) ==
                /\ d.named
                /\ NamesTriones(d.name)
                /\ device_names.given =>
                       \E i \in 1..Len(device_names.names) :
                           device_names.names[i] = d.name
            expected == SelectSeq(Scanned, Wanted)
        IN  /\ Len(result) = Len(expected)
            /\ \A i \in 1..Len(expected) :
                   /\ result[i].device = expected[i]
                   /\ Unconnected(result[i])

\* A scan finds TRIONES-B and then two lights named Triones-A; discover for
\* the name Triones-A returns the two, in the order found.
C25_Witness ==
    /\ ScanReturned
    /\ op = "discover"
    /\ args[1] = NameFilter(TRUE,
                     << <<"T", "r", "i", "o", "n", "e", "s", "-", "A">> >>)
    /\ Len(Scanned) = 3
    /\ Scanned[1].address = <<"B", "B">>
    /\ Scanned[1].name = <<"T", "R", "I", "O", "N", "E", "S", "-", "B">>
    /\ Len(result) = 2
    /\ result[1].device.address = <<"A", "A">>
    /\ result[2].device.address = <<"E", "E">>


\* The two strings are equal up to the case of their letters.
SameIgnoringCase(a, b) ==
    /\ Len(a) = Len(b)
    /\ \A i \in 1..Len(a) :
           \/ a[i] = b[i]
           \/ \E k \in 1..26 : {a[i], b[i]} = {UpperLetters[k], LowerLetters[k]}

\* The result is an unconnected controller for the first device found at
\* one of the positions, None when there is no such position.
FirstOf(positions) ==
    IF positions = {} THEN ~result.found
    ELSE /\ result.found
         /\ result.controller.device =
                Scanned[CHOOSE i \in positions : \A j \in positions : i <= j]
         /\ Unconnected(result.controller)

\* C26: find_by_address returns an unconnected controller for the first
\* device found whose address equals the requested one ignoring case and
\* whose name contains "triones" in any case, None when there is none;
\* find_by_name returns the first controller discover gives for that one
\* name, None when it gives none.
C26_FindFirst ==
    /\ (ScanReturned /\ op = "find_by_address") =>
           FirstOf({i \in 1..Len(Scanned) :
                       /\ SameIgnoringCase(Scanned[i].address, args[1])
                       /\ Scanned[i].named
                       /\ NamesTriones(Scanned[i].name)})
    /\ (ScanReturned /\ op = "find_by_name") =>
           FirstOf({i \in 1..Len(Scanned) :
                       /\ Scanned[i].named
                       /\ Scanned[i].name = args[1]
                       /\ NamesTriones(Scanned[i].name)})

\* A scan finds a device without a name at AA, then the light Triones-A at
\* AA; find_by_address("aa") returns a controller for the second.
C26_Witness ==
    /\ ScanReturned
    /\ op = "find_by_address"
    /\ args[1] = <<"a", "a">>
    /\ Len(Scanned) >= 2
    /\ ~Scanned[1].named
    /\ Scanned[1].address = <<"A", "A">>
    /\ Scanned[2].address = <<"A", "A">>
    /\ result.found
    /\ result.controller.device = Scanned[2]


\* The transport clients a controller holds or has called in its running
\* operation.
ClientsOf(controller) ==
    ({controller.client}
     \cup {controller.log[i].cl : i \in 1..Len(controller.log)}) \ {None}

SessionEnded ==
    /\ pc = "done"
    /\ \/ op = "disconnect"
       \/ op = "connect" /\ result = "False"
       \/ /\ op \in OneFrameOps
          /\ result = "False"
          /\ Writes(log) # <<>>
          /\ Writes(log)[Len(Writes(log))].res # "ok"

\* An operation that started on a controller holding no session called the
\* transport only on clients made after it started, the first call opening
\* one; when that open was accepted, connect() left the controller
\* connected on it and a command went on to use it.
FreshSession ==
    (pc = "done" /\ ~pre.connected /\ pre.client = None /\ log # <<>>) =>
        /\ log[1].ev = "open"
        /\ \A j \in 1..Len(log) : log[j].cl > pre.nclients
        /\ \A s \in active_notify : s[1] > pre.nclients
        /\ log[1].res = "ok" =>
               IF op = "connect"
               THEN result = "True" /\ is_connected /\ client = log[1].cl
               ELSE /\ Len(log) >= 2
                    /\ log[2].ev \in {"write", "start_notify"}
                    /\ log[2].cl = log[1].cl

\* C28: after disconnect(), a failed connect() or an unrecovered write the
\* controller holds nothing of the session that ended (not connected, no
\* client), so that the next connect() or auto-connecting command opens a
\* fresh client, uses no earlier client or subscription, and is connected
\* when the open is accepted.
C28_ReusableAfterFailure ==
    /\ SessionEnded => (~connected /\ client = None)
    /\ FreshSession


\* C29: connect() called on a connected controller calls the transport not
\* at all, makes no client, leaves the client held and the connected flag
\* as they were, and returns True.
C29_ConnectWhenConnected ==
    (op = "connect" /\ PreConnected) =>
        /\ log = <<>>
        /\ nclients = pre.nclients
        /\ client = pre.client
        /\ connected = pre.connected
        /\ pc = "done" => result = "True"

C29_Witness ==
    /\ pc = "done"
    /\ op = "connect"
    /\ PreConnected
    /\ result = "True"
    /\ client = pre.client

\* C30: when no operation is running (one has completed, or none was
\* called yet), the connected flag is set exactly when a client is held,
\* and is_connected equals the flag.
C30_FlagIffClient ==
    (pc \in {"done", "idle"}) =>
        /\ connected <=> client # None
        /\ is_connected <=> connected

\* A get_status during which a transport call raised has completed on a
\* controller that stays connected.
C30_Witness ==
    /\ pc = "done"
    /\ op = "get_status"
    /\ connected
    /\ client # None
    /\ Failed(log)


\* The clients the transport has opened for the controller, and those
\* disconnect() was called on, by either task.
OpenedClients ==
    ({pre.client} \ {None})
    \cup {log[i].cl : i \in {j \in 1..Len(log) :
                               log[j].ev = "open" /\ log[j].res = "ok"}}
    \cup {peer.log[i].cl : i \in {j \in 1..Len(peer.log) :
                               /\ peer.log[j].ev = "open"
                               /\ peer.log[j].res = "ok"}}

ClosedClients ==
    {log[i].cl : i \in {j \in 1..Len(log) : log[j].ev = "close"}}
    \cup {peer.log[i].cl : i \in {j \in 1..Len(peer.log) :
                                    peer.log[j].ev = "close"}}

\* C31: with connect() and disconnect() calls overlapping on one
\* controller, once both tasks have returned every client that was opened
\* is the client held or had disconnect called on it, and the connected
\* flag is not set while no client is held.
C31_NoOrphanedClient ==
    (pc \in {"idle", "done"} /\ peer.pc \in {"idle", "done"}) =>
        /\ \A c \in OpenedClients : c = client \/ c \in ClosedClients
        /\ connected => client # None


\* C32: get_status returns a status only when the status request of that
\* call was written and the write was accepted, and the status is decoded
\* from a notification its own handler received.
C32_StatusOnlyAfterRequest ==
    (pc = "done" /\ op = "get_status" /\ result = "Status") =>
        /\ \E i \in 1..Len(log) :
               /\ log[i].ev = "write"
               /\ log[i].res = "ok"
               /\ log[i].data = StatusRequestFrame
        /\ \E k \in 1..Len(received) :
               /\ parse_status_response(received[k]).ok
               /\ status = parse_status_response(received[k]).status


\* C33: when _write_command returns True, exactly one write of the call was
\* accepted, it is the last write of the call, and every write of the call
\* (the resend too) carries the bytes of the command.
C33_DeliveredOnce ==
    LET w == Writes(CallLog)
    IN  (WriteCommandReturned /\ ret = "True") =>
            /\ w # <<>>
            /\ w[Len(w)].res = "ok"
            /\ \A i \in 1..(Len(w) - 1) : w[i].res # "ok"
            /\ \A i \in 1..Len(w) : w[i].data = w[1].data /\ w[i].data = cmd

\* set_rgb(255, 0, 0): the first write is refused, the resend after the
\* reconnect is accepted, and both carry the same seven bytes.
C33_Witness ==
    /\ WriteCommandReturned
    /\ ret = "True"
    /\ op = "set_rgb"
    /\ Len(Writes(CallLog)) = 2
    /\ Writes(CallLog)[1].res # "ok"
    /\ Writes(CallLog)[1].data = <<86, 255, 0, 0, 0, 240, 170>>
    /\ Writes(CallLog)[2].data = <<86, 255, 0, 0, 0, 240, 170>>


\* The calls of one kind the operation has made on the transport.
Calls(kind) == SelectSeq(log, LAMBDA e : e.ev = kind)
CallsOn(kind, char) ==
    SelectSeq(log, LAMBDA e : e.ev = kind /\ e.data = <<char>>)

\* An operation is running.
Running == pc \notin {"idle", "done"}

\* get_status subscribes and unsubscribes at most once on each channel,
\* calls _write_command once (at most two writes, of the status request)
\* and starts its wait only after that call, before any unsubscribe.
StatusRequestBounded ==
    /\ op = "get_status" =>
           /\ \A char \in {NOTIFY_CHARACTERISTIC_1, NOTIFY_CHARACTERISTIC_2} :
                  /\ Len(CallsOn("start_notify", char)) <= 1
                  /\ Len(CallsOn("stop_notify", char)) <= 1
           /\ Len(Calls("write")) <= 2
           /\ \A i \in 1..Len(log) :
                  log[i].ev = "write" => log[i].data = StatusRequestFrame
           /\ Len(Calls("open")) <= 2
    /\ pc = "wait_response" =>
           /\ Calls("stop_notify") = <<>>
           /\ Calls("write") # <<>>
           /\ Calls("write")[Len(Calls("write"))].res = "ok"

\* C34, as stated: every operation that was called returns; a command
\* makes at most 2 connect attempts and 2 transmit attempts; get_status is
\* bounded as above.
C34_TerminatesWithinTwo ==
    /\ (op \in SemanticOps \ {"get_status"}) =>
           /\ Len(Calls("open")) <= 2
           /\ Len(Calls("write")) <= 2
    /\ StatusRequestBounded

\* C34, amended: every operation that was called returns; a command of one
\* frame makes at most 2 connect attempts and 2 transmit attempts;
\* set_rgbw, which is two frames, at most 4 connect attempts and 4 transmit
\* attempts; connect at most one connect attempt and disconnect none;
\* get_status is bounded as above.
C34_Terminates ==
    /\ [](/\ (op \in OneFrameOps) =>
                 /\ Len(Calls("open")) <= 2
                 /\ Len(Calls("write")) <= 2
          /\ (op = "set_rgbw") =>
                 /\ Len(Calls("open")) <= 4
                 /\ Len(Calls("write")) <= 4
          /\ (op = "connect") =>
                 Len(Calls("open")) <= 1 /\ Calls("write") = <<>>
          /\ (op = "disconnect") =>
                 Calls("open") = <<>> /\ Calls("write") = <<>>
          /\ StatusRequestBounded)
    /\ Running ~> (pc = "done")

\* set_rgbw(255, 0, 0, 255) has returned after four transmit attempts: each
\* frame was refused once and resent.
C34_Witness ==
    /\ pc = "done"
    /\ op = "set_rgbw"
    /\ Len(Calls("write")) = 4
    /\ result = "True"


\* C35: every byte is formatted as two digits that are read back as the
\* byte; for a decoded status, rgb_hex is "#" and six lowercase hex digits;
\* set_color_hex of it raises nothing, every frame it writes is the RGB
\* frame of the status's red, green and blue, and when it returns True
\* that frame was written and accepted.
C35_HexRoundTrip ==
    /\ (pc = "idle") =>
           \A value \in 0..255 :
               /\ Len(format_02x(value)) = 2
               /\ int16(format_02x(value)) = [ok |-> TRUE, value |-> value]
    /\ (op = "set_color_hex") =>
        /\ Len(args[1]) = 7
        /\ args[1][1] = "#"
        /\ \A i \in 2..7 : \E k \in 1..16 : args[1][i] = LowerDigits[k]
        /\ result # "ValueError"
        /\ \A i \in 1..Len(log) :
               log[i].ev = "write" =>
                   log[i].data = <<86, status.red, status.green, status.blue,
                                   0, 240, 170>>
        /\ (pc = "done" /\ result = "True") =>
               \E i \in 1..Len(log) : log[i].ev = "write" /\ log[i].res = "ok"
        /\ (pc = "done" /\ PreConnected /\ ~Failed(log)) => result = "True"

\* The status holds red 171, green 15, blue 0: rgb_hex is "#ab0f00", and
\* set_color_hex of it has written the frame and returned True.
C35_Witness ==
    /\ pc = "done"
    /\ op = "set_color_hex"
    /\ status.red = 171 /\ status.green = 15 /\ status.blue = 0
    /\ args[1] = <<"#", "a", "b", "0", "f", "0", "0">>
    /\ result = "True"
    /\ log[Len(log)].data = <<86, 171, 15, 0, 0, 240, 170>>

====
